---- MODULE Spec2Model ----
(***************************************************************************)
(* Inter-agent coordination protocol of the homelab dashboard bots:        *)
(* the AgentMessage envelope codec, the dispatcher of BaseMatrixAgent,     *)
(* the agent registry and the chain-workflow executor of                   *)
(* OrchestratorAgent.                                                      *)
(*                                                                         *)
(* Text is modelled at character level: a Python str is a sequence of      *)
(* one-character strings, so json.dumps, json.loads, str.find and the      *)
(* slicing done by the dispatcher are computed, not assumed.               *)
(***************************************************************************)
EXTENDS Integers, Sequences, FiniteSets, TLC

(***************************************************************************)
(* Python values that travel through json: None, bool, int, str, list,     *)
(* dict with str keys.  A dict is its sequence of (key, value) pairs in    *)
(* insertion order.                                                        *)
(***************************************************************************)
JNull == [k |-> "null", s |-> <<>>, n |-> 0, items |-> <<>>]

JStr(str) == [k |-> "str", s |-> str, n |-> 0, items |-> <<>>]

JInt(i) == [k |-> "int", s |-> <<>>, n |-> i, items |-> <<>>]

JBool(b) == [k |-> "bool", s |-> <<>>, n |-> IF b THEN 1 ELSE 0, items |-> <<>>]

JList(vals) == [k |-> "list", s |-> <<>>, n |-> 0, items |-> vals]

JDict(pairs) == [k |-> "dict", s |-> <<>>, n |-> 0, items |-> pairs]

Pair(key, val) == [key |-> key, val |-> val]

\* key in d
DictHas(d, key) == \E i \in 1..Len(d.items) : d.items[i].key = key

\* d[key]
DictGet(d, key) ==
    d.items[CHOOSE i \in 1..Len(d.items) : d.items[i].key = key].val

\* d[key] = val on a dict under construction: an existing key keeps its place
DictPut(pairs, key, val) ==
    IF \E i \in 1..Len(pairs) : pairs[i].key = key
    THEN [i \in 1..Len(pairs) |->
            IF pairs[i].key = key THEN Pair(key, val) ELSE pairs[i]]
    ELSE Append(pairs, Pair(key, val))

(***************************************************************************)
(* Characters and numbers.                                                 *)
(***************************************************************************)
Digits == <<"0", "1", "2", "3", "4", "5", "6", "7", "8", "9">>

IsDigit(c) == \E d \in 1..10 : Digits[d] = c

DigitVal(c) == (CHOOSE d \in 1..10 : Digits[d] = c) - 1

\* "%0<w>d" % n, for n >= 0
RECURSIVE Pad(_, _)
Pad(n, w) ==
    IF w <= 1 /\ n < 10 THEN <<Digits[n + 1]>>
    ELSE Append(Pad(n \div 10, w - 1), Digits[(n % 10) + 1])

\* str(n)
IntStr(n) == IF n < 0 THEN <<"-">> \o Pad(0 - n, 1) ELSE Pad(n, 1)

\* int(text[i..j]) for a run of digits
RECURSIVE DigitsVal(_, _, _)
DigitsVal(t, i, j) ==
    IF j < i THEN 0 ELSE DigitsVal(t, i, j - 1) * 10 + DigitVal(t[j])

AllDigits(t, i, j) == \A p \in i..j : p <= Len(t) /\ IsDigit(t[p])

\* text.find(pat): 1-based index of the first occurrence, 0 when absent
Find(t, pat) ==
    LET hits == {i \in 1..(Len(t) - Len(pat) + 1) :
                    \A j \in 1..Len(pat) : t[i + j - 1] = pat[j]}
    IN  IF hits = {} THEN 0 ELSE CHOOSE i \in hits : \A h \in hits : i <= h

\* text[i:] with a 1-based first index
From(t, i) == SubSeq(t, i, Len(t))

\* text.endswith(suffix)
EndsWith(t, suffix) ==
    /\ Len(t) >= Len(suffix)
    /\ SubSeq(t, Len(t) - Len(suffix) + 1, Len(t)) = suffix

(***************************************************************************)
(* json.dumps with the default separators and ensure_ascii.                *)
(***************************************************************************)
\* the one non-ASCII character of the model and its \uXXXX escape
NonAscii == "é"

NonAsciiHex == <<"0", "0", "e", "9">>

EscapeChar(c) ==
    CASE c = "\"" -> <<"\\", "\"">>
      [] c = "\\" -> <<"\\", "\\">>
      [] c = "\n" -> <<"\\", "n">>
      [] c = "\t" -> <<"\\", "t">>
      [] c = NonAscii -> <<"\\", "u">> \o NonAsciiHex
      [] OTHER -> <<c>>

\* 1-based index of the first character of t at or after i that is in
\* chars, Len(t) + 1 when there is none
NextIn(t, i, chars) ==
    LET hits == {p \in i..Len(t) : t[p] \in chars}
    IN  IF hits = {} THEN Len(t) + 1
        ELSE CHOOSE p \in hits : \A h \in hits : p <= h

\* the characters ESCAPE_ASCII matches
Escaped == {"\"", "\\", "\n", "\t", NonAscii}

\* ESCAPE_ASCII.sub(replace, str): every match replaced, the rest copied
RECURSIVE Escape(_)
Escape(str) ==
    LET j == NextIn(str, 1, Escaped)
    IN  IF j > Len(str) THEN str
        ELSE SubSeq(str, 1, j - 1) \o EscapeChar(str[j])
             \o Escape(SubSeq(str, j + 1, Len(str)))

Quoted(str) == <<"\"">> \o Escape(str) \o <<"\"">>

RECURSIVE dumps(_), DumpList(_), DumpPairs(_)
dumps(v) ==
    CASE v.k = "null" -> <<"n", "u", "l", "l">>
      [] v.k = "bool" -> IF v.n = 1 THEN <<"t", "r", "u", "e">>
                         ELSE <<"f", "a", "l", "s", "e">>
      [] v.k = "int"  -> IntStr(v.n)
      [] v.k = "str"  -> Quoted(v.s)
      [] v.k = "list" -> <<"[">> \o DumpList(v.items) \o <<"]">>
      [] v.k = "dict" -> <<"{">> \o DumpPairs(v.items) \o <<"}">>

DumpList(vals) ==
    IF vals = <<>> THEN <<>>
    ELSE IF Len(vals) = 1 THEN dumps(vals[1])
    ELSE dumps(vals[1]) \o <<",", " ">> \o DumpList(Tail(vals))

DumpPairs(pairs) ==
    IF pairs = <<>> THEN <<>>
    ELSE LET one == Quoted(pairs[1].key) \o <<":", " ">> \o dumps(pairs[1].val)
         IN  IF Len(pairs) = 1 THEN one
             ELSE one \o <<",", " ">> \o DumpPairs(Tail(pairs))

(***************************************************************************)
(* json.loads: the recursive-descent scanner of the json module, for the   *)
(* values above.  A result is [ok, val, pos]; ok = FALSE is                *)
(* json.JSONDecodeError.                                                   *)
(***************************************************************************)
Whitespace == {" ", "\t", "\n", "\r"}

ParseFail == [ok |-> FALSE, val |-> JNull, pos |-> 0]

ParseOk(v, p) == [ok |-> TRUE, val |-> v, pos |-> p]

RECURSIVE SkipWs(_, _)
SkipWs(t, i) ==
    IF i <= Len(t) /\ t[i] \in Whitespace THEN SkipWs(t, i + 1) ELSE i

\* the text has the literal lit at position i
HasAt(t, i, lit) ==
    /\ i + Len(lit) - 1 <= Len(t)
    /\ \A j \in 1..Len(lit) : t[i + j - 1] = lit[j]

\* the terminators of STRINGCHUNK: the quote, the backslash and the control
\* characters
Terminators == {"\"", "\\", "\n", "\t", "\r"}

\* the character a backslash escape stands for and the length of the escape;
\* n = 0 is an invalid escape
Unescape(t, i) ==
    IF i > Len(t) THEN [n |-> 0, c |-> " "]
    ELSE IF t[i] = "u" THEN
        IF HasAt(t, i + 1, NonAsciiHex) THEN [n |-> 5, c |-> NonAscii]
        ELSE [n |-> 0, c |-> " "]
    ELSE IF t[i] \in {"\"", "\\", "/"} THEN [n |-> 1, c |-> t[i]]
    ELSE IF t[i] = "n" THEN [n |-> 1, c |-> "\n"]
    ELSE IF t[i] = "t" THEN [n |-> 1, c |-> "\t"]
    ELSE IF t[i] = "r" THEN [n |-> 1, c |-> "\r"]
    ELSE [n |-> 0, c |-> " "]

RECURSIVE ScanString(_, _, _)
\* the escape esc after the backslash at j, then the rest of the string
ScanEscape(t, j, chunk, esc) ==
    IF esc.n = 0 THEN ParseFail
    ELSE ScanString(t, j + 1 + esc.n, Append(chunk, esc.c))

\* a chunk of plain characters from i up to its terminator at j
ScanChunk(t, i, acc, j) ==
    IF j > Len(t) THEN ParseFail
    ELSE IF t[j] = "\"" THEN ParseOk(JStr(acc \o SubSeq(t, i, j - 1)), j + 1)
    ELSE IF t[j] = "\\"
        THEN ScanEscape(t, j, acc \o SubSeq(t, i, j - 1), Unescape(t, j + 1))
    ELSE ParseFail

\* scanstring: i is the position after the opening quote
ScanString(t, i, acc) == ScanChunk(t, i, acc, NextIn(t, i, Terminators))

\* end of the run of digits that starts at i
RECURSIVE DigitsEnd(_, _)
DigitsEnd(t, i) ==
    IF i <= Len(t) /\ IsDigit(t[i]) THEN DigitsEnd(t, i + 1) ELSE i

\* NUMBER_RE, integer part: -?(0|[1-9][0-9]*)
ScanNumber(t, i) ==
    LET neg == i <= Len(t) /\ t[i] = "-"
        s   == IF neg THEN i + 1 ELSE i
        e   == IF s <= Len(t) /\ t[s] = "0" THEN s + 1 ELSE DigitsEnd(t, s)
    IN  IF e = s THEN ParseFail
        ELSE ParseOk(JInt(IF neg THEN 0 - DigitsVal(t, s, e - 1)
                          ELSE DigitsVal(t, s, e - 1)), e)

\* no element: a syntax error inside an array or an object
NoElement ==
    [ok |-> FALSE, last |-> FALSE, next |-> 0, key |-> <<>>, val |-> JNull]

\* the element r (under key, in an object) and what follows it: the closing
\* bracket (last), or a comma and the position of the next element
After(t, key, r, close) ==
    LET j == SkipWs(t, r.pos)
    IN  IF ~r.ok \/ j > Len(t) THEN NoElement
        ELSE IF t[j] = close
            THEN [ok |-> TRUE, last |-> TRUE, next |-> j + 1,
                  key |-> key, val |-> r.val]
        ELSE IF t[j] = ","
            THEN [ok |-> TRUE, last |-> FALSE, next |-> SkipWs(t, j + 1),
                  key |-> key, val |-> r.val]
        ELSE NoElement

RECURSIVE ScanOnce(_, _), ScanArray(_, _, _), ScanObject(_, _, _)
\* JSONArray: the element e is scanned
ArrayStep(t, acc, e) ==
    IF ~e.ok THEN ParseFail
    ELSE IF e.last THEN ParseOk(JList(Append(acc, e.val)), e.next)
    ELSE ScanArray(t, e.next, Append(acc, e.val))

\* JSONArray: i is at the start of the next element
ScanArray(t, i, acc) == ArrayStep(t, acc, After(t, <<>>, ScanOnce(t, i), "]"))

\* the colon and the value after the key of a pair
PairValue(t, key) ==
    LET c == SkipWs(t, key.pos)
    IN  IF ~key.ok \/ c > Len(t) THEN NoElement
        ELSE IF t[c] # ":" THEN NoElement
        ELSE After(t, key.val.s, ScanOnce(t, SkipWs(t, c + 1)), "}")

\* one "key": value of an object; i is at the opening quote of the key
ScanPair(t, i) ==
    IF i > Len(t) THEN NoElement
    ELSE IF t[i] # "\"" THEN NoElement
    ELSE PairValue(t, ScanString(t, i + 1, <<>>))

\* JSONObject: the pair e is scanned; a repeated key keeps its last value
ObjectStep(t, acc, e) ==
    IF ~e.ok THEN ParseFail
    ELSE IF e.last THEN ParseOk(JDict(DictPut(acc, e.key, e.val)), e.next)
    ELSE ScanObject(t, e.next, DictPut(acc, e.key, e.val))

\* JSONObject: i is at the opening quote of the next key
ScanObject(t, i, acc) == ObjectStep(t, acc, ScanPair(t, i))

\* an opening bracket at i: the empty container, or its elements from j
ScanContainer(t, i, j) ==
    IF t[i] = "{" THEN
        IF j <= Len(t) /\ t[j] = "}" THEN ParseOk(JDict(<<>>), j + 1)
        ELSE ScanObject(t, j, <<>>)
    ELSE
        IF j <= Len(t) /\ t[j] = "]" THEN ParseOk(JList(<<>>), j + 1)
        ELSE ScanArray(t, j, <<>>)

\* scan_once: the value that starts exactly at i
ScanOnce(t, i) ==
    IF i > Len(t) THEN ParseFail
    ELSE CASE t[i] = "\"" -> ScanString(t, i + 1, <<>>)
           [] t[i] \in {"{", "["} -> ScanContainer(t, i, SkipWs(t, i + 1))
           [] HasAt(t, i, <<"n", "u", "l", "l">>) -> ParseOk(JNull, i + 4)
           [] HasAt(t, i, <<"t", "r", "u", "e">>) -> ParseOk(JBool(TRUE), i + 4)
           [] HasAt(t, i, <<"f", "a", "l", "s", "e">>) ->
                ParseOk(JBool(FALSE), i + 5)
           [] OTHER -> ScanNumber(t, i)

\* the scanned value r is the whole text, but for whitespace
Whole(t, r) == IF r.ok /\ SkipWs(t, r.pos) = Len(t) + 1 THEN r ELSE ParseFail

\* json.loads(text): one value, then only whitespace
loads(t) == Whole(t, ScanOnce(t, SkipWs(t, 1)))

(***************************************************************************)
(* datetime: naive instants.  isoformat prints the microseconds only when  *)
(* they are not zero; fromisoformat reads what isoformat prints.           *)
(***************************************************************************)
DateTime(y, mo, d, h, mi, sec, us) ==
    [year |-> y, month |-> mo, day |-> d, hour |-> h, minute |-> mi,
     second |-> sec, microsecond |-> us]

isoformat(dt) ==
    Pad(dt.year, 4) \o <<"-">> \o Pad(dt.month, 2) \o <<"-">> \o Pad(dt.day, 2)
    \o <<"T">> \o Pad(dt.hour, 2) \o <<":">> \o Pad(dt.minute, 2)
    \o <<":">> \o Pad(dt.second, 2)
    \o (IF dt.microsecond = 0 THEN <<>>
        ELSE <<".">> \o Pad(dt.microsecond, 6))

IsoFail == [ok |-> FALSE, dt |-> DateTime(1, 1, 1, 0, 0, 0, 0)]

\* datetime.fromisoformat: YYYY-MM-DD[*HH:MM:SS[.ffffff]]; ok = FALSE is
\* ValueError
fromisoformat(t) ==
    LET dateOk == /\ Len(t) >= 10
                  /\ AllDigits(t, 1, 4) /\ t[5] = "-"
                  /\ AllDigits(t, 6, 7) /\ t[8] = "-"
                  /\ AllDigits(t, 9, 10)
        timeOk == /\ Len(t) >= 19
                  /\ AllDigits(t, 12, 13) /\ t[14] = ":"
                  /\ AllDigits(t, 15, 16) /\ t[17] = ":"
                  /\ AllDigits(t, 18, 19)
        fracOk == Len(t) = 26 /\ t[20] = "." /\ AllDigits(t, 21, 26)
        y  == DigitsVal(t, 1, 4)
        mo == DigitsVal(t, 6, 7)
        d  == DigitsVal(t, 9, 10)
        h  == DigitsVal(t, 12, 13)
        mi == DigitsVal(t, 15, 16)
        sec == DigitsVal(t, 18, 19)
    IN  IF ~dateOk \/ y < 1 \/ mo < 1 \/ mo > 12 \/ d < 1 \/ d > 31
        THEN IsoFail
        ELSE IF Len(t) = 10
        THEN [ok |-> TRUE, dt |-> DateTime(y, mo, d, 0, 0, 0, 0)]
        ELSE IF ~timeOk \/ h > 23 \/ mi > 59 \/ sec > 59 THEN IsoFail
        ELSE IF Len(t) = 19
        THEN [ok |-> TRUE, dt |-> DateTime(y, mo, d, h, mi, sec, 0)]
        ELSE IF fracOk
        THEN [ok |-> TRUE,
              dt |-> DateTime(y, mo, d, h, mi, sec, DigitsVal(t, 21, 26))]
        ELSE IsoFail

(***************************************************************************)
(* AgentMessage and its dictionary form.                                   *)
(***************************************************************************)
S_id == <<"i", "d">>

S_sender == <<"s", "e", "n", "d", "e", "r">>

S_target == <<"t", "a", "r", "g", "e", "t">>

S_message_type == <<"m", "e", "s", "s", "a", "g", "e", "_", "t", "y", "p", "e">>

S_content == <<"c", "o", "n", "t", "e", "n", "t">>

S_context == <<"c", "o", "n", "t", "e", "x", "t">>

S_timestamp == <<"t", "i", "m", "e", "s", "t", "a", "m", "p">>

S_reply_to == <<"r", "e", "p", "l", "y", "_", "t", "o">>

AgentMessage(id, sender, target, message_type, content, context, timestamp, reply_to) ==
    [id |-> id, sender |-> sender, target |-> target,
     message_type |-> message_type, content |-> content, context |-> context,
     timestamp |-> timestamp, reply_to |-> reply_to]

\* to_dict with the reply_to entry left out
to_dict_without_reply_to(m) ==
    JDict(<<Pair(S_id, m.id),
            Pair(S_sender, m.sender),
            Pair(S_target, m.target),
            Pair(S_message_type, m.message_type),
            Pair(S_content, m.content),
            Pair(S_context, m.context),
            Pair(S_timestamp, JStr(isoformat(m.timestamp)))>>)

\* AgentMessage.to_dict
to_dict(m) ==
    JDict(<<Pair(S_id, m.id),
            Pair(S_sender, m.sender),
            Pair(S_target, m.target),
            Pair(S_message_type, m.message_type),
            Pair(S_content, m.content),
            Pair(S_context, m.context),
            Pair(S_timestamp, JStr(isoformat(m.timestamp))),
            Pair(S_reply_to, m.reply_to)>>)

FromDictFail ==
    [ok |-> FALSE,
     msg |-> AgentMessage(JNull, JNull, JNull, JNull, JNull, JNull,
                          DateTime(1, 1, 1, 0, 0, 0, 0), JNull)]

\* AgentMessage.from_dict; ok = FALSE is the TypeError, KeyError or
\* ValueError it raises
from_dict(data) ==
    IF data.k # "dict" THEN FromDictFail
    ELSE IF \E key \in {S_id, S_sender, S_target, S_message_type, S_content,
                        S_context, S_timestamp} : ~DictHas(data, key)
    THEN FromDictFail
    ELSE IF DictGet(data, S_timestamp).k # "str" THEN FromDictFail
    ELSE
      LET ts == fromisoformat(DictGet(data, S_timestamp).s)
      IN  IF ~ts.ok THEN FromDictFail
          ELSE [ok |-> TRUE,
                msg |-> AgentMessage(
                          DictGet(data, S_id),
                          DictGet(data, S_sender),
                          DictGet(data, S_target),
                          DictGet(data, S_message_type),
                          DictGet(data, S_content),
                          DictGet(data, S_context),
                          ts.dt,
                          IF DictHas(data, S_reply_to)
                          THEN DictGet(data, S_reply_to) ELSE JNull)]

(***************************************************************************)
(* The wire text of an envelope and its classification and decoding by     *)
(* the receiving agent.                                                    *)
(***************************************************************************)
\* the literal ': {' the receiver searches for
JsonMark == <<":", " ", "{">>

\* f"@{target}: {json.dumps(agent_msg.to_dict())}"
formatted_content(target, m) ==
    <<"@">> \o target \o <<":", " ">> \o dumps(to_dict(m))

\* BaseMatrixAgent._is_agent_message
IsAgentMessage(body) ==
    IF ~(Len(body) >= 1 /\ body[1] = "@" /\ \E i \in 1..Len(body) : body[i] = ":")
    THEN FALSE
    ELSE LET json_start == Find(body, JsonMark)
         IN  IF json_start = 0 THEN FALSE
             ELSE loads(From(body, json_start + 2)).ok

\* body[1:target_end] of _handle_agent_message
WireTarget(body) ==
    LET target_end == Find(body, JsonMark)
    IN  SubSeq(body, 2, target_end - 1)

\* json.loads and from_dict of _handle_agent_message; ok = FALSE is an
\* exception caught by its except clause
Decoded(msg_data) ==
    IF ~msg_data.ok THEN FromDictFail ELSE from_dict(msg_data.val)

DecodeEnvelope(body) == Decoded(loads(From(body, Find(body, JsonMark) + 2)))

(***************************************************************************)
(* Python str operations used by the agents.                               *)
(***************************************************************************)
StartsWith(t, prefix) ==
    Len(t) >= Len(prefix) /\ SubSeq(t, 1, Len(prefix)) = prefix

Contains(t, sub) == Find(t, sub) # 0

RECURSIVE LStrip(_, _)
\* t.lstrip(chars)
LStrip(t, chars) ==
    IF t # <<>> /\ Head(t) \in chars THEN LStrip(Tail(t), chars) ELSE t

RECURSIVE RStrip(_, _)
\* t.rstrip(chars)
RStrip(t, chars) ==
    IF t # <<>> /\ t[Len(t)] \in chars
    THEN RStrip(SubSeq(t, 1, Len(t) - 1), chars) ELSE t

\* t.strip()
Strip(t) == RStrip(LStrip(t, Whitespace), Whitespace)

UpperCase == <<"A", "B", "C", "D", "E", "F", "G", "H", "I", "J", "K", "L", "M",
               "N", "O", "P", "Q", "R", "S", "T", "U", "V", "W", "X", "Y", "Z">>

LowerCase == <<"a", "b", "c", "d", "e", "f", "g", "h", "i", "j", "k", "l", "m",
               "n", "o", "p", "q", "r", "s", "t", "u", "v", "w", "x", "y", "z">>

\* t.lower()
Lower(t) ==
    [i \in 1..Len(t) |->
        IF \E j \in 1..26 : UpperCase[j] = t[i]
        THEN LowerCase[CHOOSE j \in 1..26 : UpperCase[j] = t[i]]
        ELSE t[i]]

\* t.split(sep, 1): one or two parts
SplitOnce(t, sep) ==
    LET i == Find(t, sep)
    IN  IF i = 0 THEN <<t>>
        ELSE <<SubSeq(t, 1, i - 1), From(t, i + Len(sep))>>

RECURSIVE Split(_, _)
\* t.split(sep)
Split(t, sep) ==
    LET i == Find(t, sep)
    IN  IF i = 0 THEN <<t>>
        ELSE <<SubSeq(t, 1, i - 1)>> \o Split(From(t, i + Len(sep)), sep)

RECURSIVE Join(_, _)
\* sep.join(parts)
Join(parts, sep) ==
    IF parts = <<>> THEN <<>>
    ELSE IF Len(parts) = 1 THEN parts[1]
    ELSE parts[1] \o sep \o Join(Tail(parts), sep)

S_None == <<"N", "o", "n", "e">>

S_True == <<"T", "r", "u", "e">>

S_False == <<"F", "a", "l", "s", "e">>

\* str(v) as an f-string prints it, for the values an envelope field can hold
PyStr(v) ==
    CASE v.k = "str"  -> v.s
      [] v.k = "int"  -> IntStr(v.n)
      [] v.k = "null" -> S_None
      [] v.k = "bool" -> IF v.n = 1 THEN S_True ELSE S_False
      [] OTHER        -> dumps(v)

\* a value usable as a dict key or set member; a list or dict raises TypeError
Hashable(v) == v.k \notin {"list", "dict"}

(***************************************************************************)
(* Literals of the protocol.                                               *)
(***************************************************************************)
S_room == <<"r", "o", "o", "m">>

S_star == <<"*">>

S_agent_online == <<"a", "g", "e", "n", "t", "_", "o", "n", "l", "i", "n", "e">>

S_agent_offline == <<"a", "g", "e", "n", "t", "_", "o", "f", "f", "l", "i", "n", "e">>

S_capability_query == <<"c", "a", "p", "a", "b", "i", "l", "i", "t", "y", "_", "q", "u", "e", "r", "y">>

S_route_request == <<"r", "o", "u", "t", "e", "_", "r", "e", "q", "u", "e", "s", "t">>

S_workflow_request == <<"w", "o", "r", "k", "f", "l", "o", "w", "_", "r", "e", "q", "u", "e", "s", "t">>

S_task_response == <<"t", "a", "s", "k", "_", "r", "e", "s", "p", "o", "n", "s", "e">>

S_health_check == <<"h", "e", "a", "l", "t", "h", "_", "c", "h", "e", "c", "k">>

S_user_request == <<"u", "s", "e", "r", "_", "r", "e", "q", "u", "e", "s", "t">>

S_generate_text == <<"g", "e", "n", "e", "r", "a", "t", "e", "_", "t", "e", "x", "t">>

S_summarize == <<"s", "u", "m", "m", "a", "r", "i", "z", "e">>

S_analyze == <<"a", "n", "a", "l", "y", "z", "e">>

S_translate == <<"t", "r", "a", "n", "s", "l", "a", "t", "e">>

S_code_gen == <<"c", "o", "d", "e", "_", "g", "e", "n">>

S_workflow_step == <<"w", "o", "r", "k", "f", "l", "o", "w", "_", "s", "t", "e", "p">>

S_response_suffix == <<"_", "r", "e", "s", "p", "o", "n", "s", "e">>

S_error == <<"e", "r", "r", "o", "r">>

S_unknown_message_type == <<"U", "n", "k", "n", "o", "w", "n", " ", "m", "e", "s", "s", "a", "g", "e", " ", "t", "y", "p", "e", ":", " ">>

S_agent_id == <<"a", "g", "e", "n", "t", "_", "i", "d">>

S_display_name == <<"d", "i", "s", "p", "l", "a", "y", "_", "n", "a", "m", "e">>

S_capabilities == <<"c", "a", "p", "a", "b", "i", "l", "i", "t", "i", "e", "s">>

S_status == <<"s", "t", "a", "t", "u", "s">>

S_online == <<"o", "n", "l", "i", "n", "e">>

S_offline == <<"o", "f", "f", "l", "i", "n", "e">>

S_request_id == <<"r", "e", "q", "u", "e", "s", "t", "_", "i", "d">>

S_requester == <<"r", "e", "q", "u", "e", "s", "t", "e", "r">>

S_room_id == <<"r", "o", "o", "m", "_", "i", "d">>

S_output == <<"o", "u", "t", "p", "u", "t">>

S_completed == <<"c", "o", "m", "p", "l", "e", "t", "e", "d">>

(***************************************************************************)
(* Bounds of the model.                                                    *)
(***************************************************************************)
\* the clock stops advancing here
MaxNow == 300

\* sends the transport may refuse
MaxSendFailures == 1

\* how many times the transport may refuse a login, and a join
MaxStartFailures == 1

\* longest message_type the transport still carries
MaxTypeLen == 22

(***************************************************************************)
(* The agents: one OrchestratorAgent and one LLMAgent, and a human user,   *)
(* all members of one room.                                                *)
(***************************************************************************)
Orch == "orch"

Llm == "llm"

Agents == {Orch, Llm}

OrchUsername == <<"@", "o", "r", "c", "h", ":", "h", "s">>

LlmUsername == <<"@", "l", "l", "m", ":", "h", "s">>

UserId == <<"@", "u", "s", "e", "r", ":", "h", "s">>

RoomId == <<"!", "r">>

\* os.getenv("COORDINATION_ROOM_ID") unset, and coordination_room = None
NoRoom == <<>>

username(a) == IF a = Orch THEN OrchUsername ELSE LlmUsername

\* self.agent_id = username.split(':')[0].lstrip('@')
agent_id(a) == LStrip(Split(username(a), <<":">>)[1], {"@"})

OrchDisplayName == <<"é", " ", "O", "r", "c", "h", "e", "s", "t", "r", "a", "t", "o", "r">>

LlmDisplayName == <<"é", " ", "G", "r", "a", "n", "d", "p", "a", " ", "L", "L", "M">>

display_name(a) == IF a = Orch THEN OrchDisplayName ELSE LlmDisplayName

OrchCapabilities ==
    <<JStr(<<"a", "g", "e", "n", "t", "_", "d", "i", "s", "c", "o", "v", "e", "r", "y">>),
      JStr(<<"m", "e", "s", "s", "a", "g", "e", "_", "r", "o", "u", "t", "i", "n", "g">>),
      JStr(<<"w", "o", "r", "k", "f", "l", "o", "w", "_", "c", "o", "o", "r", "d", "i", "n", "a", "t", "i", "o", "n">>),
      JStr(<<"s", "y", "s", "t", "e", "m", "_", "m", "o", "n", "i", "t", "o", "r", "i", "n", "g">>),
      JStr(<<"c", "a", "p", "a", "b", "i", "l", "i", "t", "y", "_", "m", "a", "t", "c", "h", "i", "n", "g">>)>>

LlmCapabilities ==
    <<JStr(<<"t", "e", "x", "t", "_", "g", "e", "n", "e", "r", "a", "t", "i", "o", "n">>),
      JStr(<<"s", "u", "m", "m", "a", "r", "i", "z", "a", "t", "i", "o", "n">>),
      JStr(<<"q", "u", "e", "s", "t", "i", "o", "n", "_", "a", "n", "s", "w", "e", "r", "i", "n", "g">>),
      JStr(<<"c", "o", "d", "e", "_", "g", "e", "n", "e", "r", "a", "t", "i", "o", "n">>),
      JStr(<<"t", "r", "a", "n", "s", "l", "a", "t", "i", "o", "n">>),
      JStr(<<"c", "o", "n", "t", "e", "n", "t", "_", "a", "n", "a", "l", "y", "s", "i", "s">>),
      JStr(<<"c", "o", "n", "v", "e", "r", "s", "a", "t", "i", "o", "n">>)>>

capabilities(a) == IF a = Orch THEN OrchCapabilities ELSE LlmCapabilities

\* OrchestratorAgent._register_handlers
OrchHandlers ==
    (S_agent_online :> "_handle_agent_online")
    @@ (S_agent_offline :> "_handle_agent_offline")
    @@ (S_capability_query :> "_handle_capability_query")
    @@ (S_route_request :> "_handle_route_request")
    @@ (S_workflow_request :> "_handle_workflow_request")
    @@ (S_task_response :> "_handle_task_response")
    @@ (S_health_check :> "_handle_health_check_msg")

\* LLMAgent._register_handlers
LlmHandlers ==
    (S_user_request :> "_handle_user_request")
    @@ (S_generate_text :> "_handle_generate_text")
    @@ (S_summarize :> "_handle_summarize")
    @@ (S_analyze :> "_handle_analyze")
    @@ (S_translate :> "_handle_translate")
    @@ (S_code_gen :> "_handle_code_generation")
    @@ (S_workflow_step :> "_handle_workflow_step")

EmptyMap == [x \in {} |-> 0]

S_pending == <<"p", "e", "n", "d", "i", "n", "g">>

S_running == <<"r", "u", "n", "n", "i", "n", "g">>

S_failed == <<"f", "a", "i", "l", "e", "d">>

(***************************************************************************)
(* State.                                                                  *)
(***************************************************************************)
VARIABLES
    now,                \* datetime.now(), in seconds
    uuid_count,         \* uuid.uuid4() calls made so far
    timeline,           \* every send to the room, in order, with its outcome
    budget,             \* budget the transport may still produce
    typed,              \* texts the human user has typed
    environ,            \* COORDINATION_ROOM_ID of each agent's process
    pc,                 \* where each agent is in start() / stop()
    status,             \* BaseMatrixAgent.status
    coordination_room,  \* BaseMatrixAgent.coordination_room
    joined_rooms,       \* BaseMatrixAgent.joined_rooms
    message_handlers,   \* BaseMatrixAgent.message_handlers
    cursor,             \* next timeline position the sync loop delivers
    handled,            \* history: the handler invoked for each delivered event
    agents,             \* OrchestratorAgent.agents
    capability_map,     \* OrchestratorAgent.capability_map
    system_stats,       \* OrchestratorAgent.system_stats
    pending_requests,   \* OrchestratorAgent.pending_requests
    active_workflows,   \* OrchestratorAgent.active_workflows
    tasks,              \* the _execute_workflow task of each workflow
    routed,             \* history: requests routed for workflow steps
    cm,                 \* codec check: the AgentMessage
    ctarget,            \* codec check: the target it is sent to
    cwire,              \* codec check: the wire text
    cdecoded,           \* codec check: what the receiver decodes
    cpc                 \* codec check: "off", "init", "encoded", "decoded"

baseVars == <<pc, status, coordination_room, joined_rooms, message_handlers>>

orchVars == <<agents, capability_map, system_stats, pending_requests,
              active_workflows, tasks, routed>>

codecVars == <<cm, ctarget, cwire, cdecoded, cpc>>

netVars == <<timeline, budget, cursor, handled, uuid_count>>

vars == <<now, typed, environ, baseVars, orchVars, netVars, codecVars>>

(***************************************************************************)
(* Clock and identifiers.                                                  *)
(***************************************************************************)
\* datetime.now() for the clock value t
NowDateTime(t) ==
    DateTime(2024, 1, 1, t \div 3600, (t \div 60) % 60, t % 60, 0)

\* str(uuid.uuid4()): the n-th identifier drawn; all are different
uuid4(n) == Pad(n, 8) \o <<"-", "4">>

\* the first characters a workflow id keeps of its uuid
WorkflowIdLen == 8

\* the default timeout_minutes of is_online
DefaultTimeoutMinutes == 5

(***************************************************************************)
(* What a receiving agent makes of a body: _is_agent_message, the target   *)
(* and the decoded envelope.  Computed once when the text enters the       *)
(* timeline.                                                               *)
(***************************************************************************)
NotAgentMessage ==
    [is_agent |-> FALSE, target |-> <<>>, ok |-> FALSE, msg |-> FromDictFail.msg]

Classified(target, d) ==
    [is_agent |-> TRUE, target |-> target, ok |-> d.ok, msg |-> d.msg]

Classify(body) ==
    IF ~IsAgentMessage(body) THEN NotAgentMessage
    ELSE Classified(WireTarget(body), DecodeEnvelope(body))

Entry(sender, body, ok) ==
    [sender |-> sender, body |-> body, ok |-> ok, cls |-> Classify(body)]

\* outcomes client.room_send can have for agent a
SendOutcomes(a) ==
    IF pc[a] = "stopped" THEN {FALSE}
    ELSE {TRUE} \cup (IF budget.send > 0 THEN {FALSE} ELSE {})

\* BaseMatrixAgent.send_message: the timeline after agent a sends content
Sent(tl, a, content, ok) == Append(tl, Entry(username(a), content, ok))

\* the AgentMessage send_to_agent and broadcast_to_agents build
NewMessage(a, n, target, message_type, content, context) ==
    AgentMessage(JStr(uuid4(n)), JStr(agent_id(a)), target, JStr(message_type),
                 content, context, NowDateTime(now), JNull)

\* BaseMatrixAgent.send_to_agent: the body sent for the n-th uuid
SendToAgentBody(a, n, target_agent, message_type, content, context) ==
    formatted_content(PyStr(target_agent),
        NewMessage(a, n, target_agent, message_type, content, context))

\* BaseMatrixAgent.broadcast_to_agents
BroadcastBody(a, n, message_type, content, context) ==
    formatted_content(S_room,
        NewMessage(a, n, JStr(S_star), message_type, content, context))

\* reply_to_agent that keeps the type of the original and leaves the context
\* empty
ReplyBody_same_type(a, n, original_msg, response_content) ==
    SendToAgentBody(a, n, original_msg.sender,
        PyStr(original_msg.message_type),
        response_content,
        JDict(<<>>))

\* BaseMatrixAgent.reply_to_agent
ReplyBody(a, n, original_msg, response_content) ==
    SendToAgentBody(a, n, original_msg.sender,
        PyStr(original_msg.message_type) \o S_response_suffix,
        response_content,
        JDict(<<Pair(S_reply_to, original_msg.id)>>))

(***************************************************************************)
(* Delivery: the sync loop of a running agent hands it, in order, every    *)
(* text that reached the room, its own included.                           *)
(***************************************************************************)
Deliverable(a) == {i \in cursor[a]..Len(timeline) : timeline[i].ok}

HasEvent(a) == pc[a] = "syncing" /\ Deliverable(a) # {}

EventIdx(a) == CHOOSE i \in Deliverable(a) : \A j \in Deliverable(a) : i <= j

Event(a) == timeline[EventIdx(a)]

\* the callback returns: the sync loop moves on to the next event
Advance(a) == cursor' = [cursor EXCEPT ![a] = EventIdx(a) + 1]

\* the callback ran for the event and invoked handler, at the time now
Invoked(a, handler) ==
    handled' = handled \cup
                 {[agent |-> a, idx |-> EventIdx(a), handler |-> handler,
                   at |-> now]}

\* the callback returned without invoking a handler
NoHandler == "none"

\* the budget after a send with outcome ok
Spend(ok) ==
    IF ok \/ budget.send = 0 THEN budget ELSE [budget EXCEPT !.send = @ - 1]

\* the failures the transport may produce in a run
Budget(login, join, send) == [login |-> login, join |-> join, send |-> send]

(***************************************************************************)
(* BaseMatrixAgent.start and stop.                                         *)
(***************************************************************************)
\* start: client.login
Login(a) ==
    /\ pc[a] = "created"
    /\ \/ /\ status' = [status EXCEPT ![a] = S_online]
          /\ pc' = [pc EXCEPT ![a] = "logged_in"]
          /\ UNCHANGED budget
       \/ /\ budget.login > 0
          /\ budget' = [budget EXCEPT !.login = @ - 1]
          /\ pc' = [pc EXCEPT ![a] = "failed"]
          /\ UNCHANGED status
    /\ UNCHANGED <<now, typed, environ, coordination_room, joined_rooms,
                   message_handlers, orchVars, timeline, cursor, handled,
                   uuid_count, codecVars>>

\* start: join_room(COORDINATION_ROOM_ID), whose result start does not look at
JoinCoordinationRoom(a) ==
    /\ pc[a] = "logged_in"
    /\ pc' = [pc EXCEPT ![a] = "joined"]
    /\ IF environ[a] # NoRoom
       THEN /\ \/ /\ joined_rooms' =
                       [joined_rooms EXCEPT ![a] = @ \cup {environ[a]}]
                  /\ UNCHANGED budget
               \/ /\ budget.join > 0
                  /\ budget' = [budget EXCEPT !.join = @ - 1]
                  /\ UNCHANGED joined_rooms
            /\ coordination_room' = [coordination_room EXCEPT ![a] = environ[a]]
       ELSE UNCHANGED <<joined_rooms, coordination_room, budget>>
    /\ UNCHANGED <<now, typed, environ, status, message_handlers,
                   orchVars, timeline, cursor, handled, uuid_count, codecVars>>

\* the content of the agent_online announcement
PresenceContent(a) ==
    JDict(<<Pair(S_agent_id, JStr(agent_id(a))),
            Pair(S_display_name, JStr(display_name(a))),
            Pair(S_capabilities, JList(capabilities(a))),
            Pair(S_status, JStr(status[a]))>>)

\* start: _announce_presence, then _start_sync
AnnouncePresence(a) ==
    /\ pc[a] = "joined"
    /\ pc' = [pc EXCEPT ![a] = "syncing"]
    /\ IF coordination_room[a] # NoRoom
       THEN \E ok \in SendOutcomes(a) :
              /\ timeline' = Sent(timeline, a,
                               BroadcastBody(a, uuid_count + 1, S_agent_online,
                                             PresenceContent(a), JDict(<<>>)),
                               ok)
              /\ budget' = Spend(ok)
              /\ uuid_count' = uuid_count + 1
       ELSE UNCHANGED <<timeline, budget, uuid_count>>
    /\ cursor' = [cursor EXCEPT ![a] = Len(timeline') + 1]
    /\ UNCHANGED <<now, typed, environ, status, coordination_room,
                   joined_rooms, message_handlers, orchVars, handled,
                   codecVars>>

\* stop with client.close before _announce_departure: the announcement is
\* sent on a closed session
Stop_close_first(a) ==
    /\ pc[a] = "syncing"
    /\ pc' = [pc EXCEPT ![a] = "stopped"]
    /\ status' = [status EXCEPT ![a] = S_offline]
    /\ IF coordination_room[a] # NoRoom
       THEN /\ timeline' = Sent(timeline, a,
                               BroadcastBody(a, uuid_count + 1, S_agent_offline,
                                  JDict(<<Pair(S_agent_id, JStr(agent_id(a)))>>),
                                  JDict(<<>>)),
                               FALSE)
            /\ uuid_count' = uuid_count + 1
            /\ UNCHANGED budget
       ELSE UNCHANGED <<timeline, budget, uuid_count>>
    /\ UNCHANGED <<now, typed, environ, coordination_room, joined_rooms,
                   message_handlers, orchVars, cursor, handled, codecVars>>

\* stop: _announce_departure, client.close
Stop(a) ==
    /\ pc[a] = "syncing"
    /\ pc' = [pc EXCEPT ![a] = "stopped"]
    /\ status' = [status EXCEPT ![a] = S_offline]
    /\ IF coordination_room[a] # NoRoom
       THEN \E ok \in SendOutcomes(a) :
              /\ timeline' = Sent(timeline, a,
                               BroadcastBody(a, uuid_count + 1, S_agent_offline,
                                  JDict(<<Pair(S_agent_id, JStr(agent_id(a)))>>),
                                  JDict(<<>>)),
                               ok)
              /\ budget' = Spend(ok)
              /\ uuid_count' = uuid_count + 1
       ELSE UNCHANGED <<timeline, budget, uuid_count>>
    /\ UNCHANGED <<now, typed, environ, coordination_room, joined_rooms,
                   message_handlers, orchVars, cursor, handled, codecVars>>

\* time passes
\* one advance of the clock: the default liveness window
TickSeconds == DefaultTimeoutMinutes * 60

Tick ==
    /\ now + TickSeconds <= MaxNow
    /\ now' = now + TickSeconds
    /\ UNCHANGED <<typed, environ, baseVars, orchVars, netVars, codecVars>>

\* the human user, or a program using the user's account, types a text
UserSend(entry) ==
    /\ entry.body \notin typed
    /\ typed' = typed \cup {entry.body}
    /\ timeline' = Append(timeline, entry)
    /\ UNCHANGED <<now, environ, baseVars, orchVars, budget, cursor, handled,
                   uuid_count, codecVars>>

(***************************************************************************)
(* BaseMatrixAgent._on_message and _handle_agent_message.                  *)
(***************************************************************************)
\* the event is not the agent's own echo
FromOther(a) == HasEvent(a) /\ Event(a).sender # username(a)

\* the target check left out: every envelope is taken as addressed to a
ForSelf_any_target(a, e) == e.cls.target = e.cls.target

\* target == self.agent_id or target == "room"
ForSelf(a, e) == e.cls.target = agent_id(a) \/ e.cls.target = S_room

\* the handler _handle_agent_message picks for a decoded envelope
HandlerOf(a, msg) ==
    IF /\ msg.message_type.k = "str"
       /\ msg.message_type.s \in DOMAIN message_handlers[a]
    THEN message_handlers[a][msg.message_type.s]
    ELSE "_handle_unknown_agent_message"

\* _handle_agent_message reaches the handler lookup and picks handler
Accepts(a, handler) ==
    /\ FromOther(a)
    /\ Event(a).cls.is_agent
    /\ ForSelf(a, Event(a))
    /\ Event(a).cls.ok
    /\ Hashable(Event(a).cls.msg.message_type)
    /\ HandlerOf(a, Event(a).cls.msg) = handler

\* the sender check left out: the agent's own text goes on to
\* process_user_message
DropOwn_user_message(a) ==
    /\ HasEvent(a)
    /\ Event(a).sender = username(a)
    /\ Advance(a)
    /\ Invoked(a, "process_user_message")
    /\ UNCHANGED <<now, typed, environ, baseVars, orchVars, timeline,
                   budget, uuid_count, codecVars>>

\* _on_message: event.sender == self.client.user_id
DropOwn(a) ==
    /\ HasEvent(a)
    /\ Event(a).sender = username(a)
    /\ Advance(a)
    /\ Invoked(a, NoHandler)
    /\ UNCHANGED <<now, typed, environ, baseVars, orchVars, timeline,
                   budget, uuid_count, codecVars>>

\* _handle_agent_message: the target is another agent
IgnoreOtherTarget(a) ==
    /\ FromOther(a)
    /\ Event(a).cls.is_agent
    /\ ~ForSelf(a, Event(a))
    /\ Advance(a)
    /\ Invoked(a, NoHandler)
    /\ UNCHANGED <<now, typed, environ, baseVars, orchVars, timeline,
                   budget, uuid_count, codecVars>>

\* the exception of from_dict or of the handler lookup leaves the callback:
\* the sync loop of the agent ends
DecodeError_propagates(a) ==
    /\ FromOther(a)
    /\ Event(a).cls.is_agent
    /\ ForSelf(a, Event(a))
    /\ ~Event(a).cls.ok \/ ~Hashable(Event(a).cls.msg.message_type)
    /\ pc' = [pc EXCEPT ![a] = "failed"]
    /\ Invoked(a, NoHandler)
    /\ UNCHANGED <<now, typed, environ, status, coordination_room,
                   joined_rooms, message_handlers, orchVars, timeline,
                   budget, cursor, uuid_count, codecVars>>

\* _handle_agent_message: from_dict or the handler lookup raises, and the
\* except clause logs it
DecodeError(a) ==
    /\ FromOther(a)
    /\ Event(a).cls.is_agent
    /\ ForSelf(a, Event(a))
    /\ ~Event(a).cls.ok \/ ~Hashable(Event(a).cls.msg.message_type)
    /\ Advance(a)
    /\ Invoked(a, NoHandler)
    /\ UNCHANGED <<now, typed, environ, baseVars, orchVars, timeline,
                   budget, uuid_count, codecVars>>

\* outcomes of the send of a reply: the transport carries no message_type
\* longer than MaxTypeLen
ReplyOutcomes(a, original_msg) ==
    IF Len(PyStr(original_msg.message_type)) + Len(S_response_suffix) > MaxTypeLen
    THEN {FALSE}
    ELSE SendOutcomes(a)

\* the error text without the type it is about
UnknownTypeContent_without_type(msg) ==
    JDict(<<Pair(S_error, JStr(S_unknown_message_type))>>)

\* the payload of the reply to an envelope of unknown type
UnknownTypeContent(msg) ==
    JDict(<<Pair(S_error,
                 JStr(S_unknown_message_type \o PyStr(msg.message_type)))>>)

\* _handle_unknown_agent_message
HandleUnknown(a) ==
    /\ Accepts(a, "_handle_unknown_agent_message")
    /\ \E ok \in ReplyOutcomes(a, Event(a).cls.msg) :
         /\ timeline' = Sent(timeline, a,
                          ReplyBody(a, uuid_count + 1, Event(a).cls.msg,
                                    UnknownTypeContent(Event(a).cls.msg)),
                          ok)
         /\ budget' = IF ReplyOutcomes(a, Event(a).cls.msg) = {FALSE}
                       THEN budget ELSE Spend(ok)
    /\ uuid_count' = uuid_count + 1
    /\ Advance(a)
    /\ Invoked(a, "_handle_unknown_agent_message")
    /\ UNCHANGED <<now, typed, environ, baseVars, orchVars, codecVars>>

(***************************************************************************)
(* The registry of the orchestrator.                                       *)
(***************************************************************************)
\* is_online with the comparison turned around
is_online_inverted(agent, timeout_minutes) ==
    (now - agent.last_seen) > (timeout_minutes * 60)

\* RegisteredAgent.is_online
is_online(agent, timeout_minutes) ==
    (now - agent.last_seen) < (timeout_minutes * 60)

\* what "for capability in content['capabilities']" iterates over
CapabilityItems(caps) ==
    CASE caps.k = "list" -> caps.items
      [] caps.k = "str"  -> [i \in 1..Len(caps.s) |-> JStr(<<caps.s[i]>>)]
      [] caps.k = "dict" -> [i \in 1..Len(caps.items) |-> JStr(caps.items[i].key)]
      [] OTHER           -> <<>>

Iterable(caps) == caps.k \in {"list", "str", "dict"}

RECURSIVE AddCapabilities(_, _, _)
\* the capability-map loop of _handle_agent_online; it stops at a capability
\* that cannot be a dict key
AddCapabilities(map, items, id) ==
    IF items = <<>> \/ ~Hashable(Head(items)) THEN map
    ELSE LET c == Head(items)
             m == [x \in DOMAIN map \cup {c} |->
                     IF x = c
                     THEN (IF c \in DOMAIN map THEN map[c] ELSE {}) \cup {id}
                     ELSE map[x]]
         IN  AddCapabilities(m, Tail(items), id)

\* the announcement has what _handle_agent_online reads before it writes
OnlineContentOk(content) ==
    /\ content.k = "dict"
    /\ \A key \in {S_agent_id, S_display_name, S_capabilities, S_status} :
         DictHas(content, key)
    /\ Hashable(DictGet(content, S_agent_id))

\* OrchestratorAgent._handle_agent_online
HandleAgentOnline ==
    /\ Accepts(Orch, "_handle_agent_online")
    /\ LET msg     == Event(Orch).cls.msg
           content == msg.content
       IN  IF OnlineContentOk(content)
           THEN LET id   == DictGet(content, S_agent_id)
                    caps == DictGet(content, S_capabilities)
                    done == /\ Iterable(caps)
                            /\ \A i \in 1..Len(CapabilityItems(caps)) :
                                 Hashable(CapabilityItems(caps)[i])
                IN  /\ agents' =
                         [x \in DOMAIN agents \cup {id} |->
                            IF x = id
                            THEN [agent_id |-> id,
                                  display_name |-> DictGet(content, S_display_name),
                                  capabilities |-> caps,
                                  status |-> DictGet(content, S_status),
                                  last_seen |-> now,
                                  user_id |-> msg.sender]
                            ELSE agents[x]]
                    /\ capability_map' =
                         AddCapabilities(capability_map, CapabilityItems(caps), id)
                    /\ system_stats' =
                         IF done
                         THEN [system_stats EXCEPT !.agents_discovered = @ + 1]
                         ELSE system_stats
           ELSE UNCHANGED <<agents, capability_map, system_stats>>
    /\ Advance(Orch)
    /\ Invoked(Orch, "_handle_agent_online")
    /\ UNCHANGED <<now, typed, environ, baseVars, pending_requests,
                   active_workflows, tasks, routed, timeline, budget,
                   uuid_count, codecVars>>

\* _handle_agent_offline with the counter that _handle_agent_online keeps
HandleAgentOffline_counted ==
    /\ Accepts(Orch, "_handle_agent_offline")
    /\ LET content == Event(Orch).cls.msg.content
       IN  IF /\ content.k = "dict"
              /\ DictHas(content, S_agent_id)
              /\ DictGet(content, S_agent_id) \in DOMAIN agents
           THEN agents' = [agents EXCEPT
                             ![DictGet(content, S_agent_id)].status =
                               JStr(S_offline)]
           ELSE UNCHANGED agents
    /\ system_stats' = [system_stats EXCEPT !.agents_discovered = @ + 1]
    /\ Advance(Orch)
    /\ Invoked(Orch, "_handle_agent_offline")
    /\ UNCHANGED <<now, typed, environ, baseVars, capability_map,
                   pending_requests, active_workflows, tasks,
                   routed, timeline, budget, uuid_count, codecVars>>

\* OrchestratorAgent._handle_agent_offline
HandleAgentOffline ==
    /\ Accepts(Orch, "_handle_agent_offline")
    /\ LET content == Event(Orch).cls.msg.content
       IN  IF /\ content.k = "dict"
              /\ DictHas(content, S_agent_id)
              /\ DictGet(content, S_agent_id) \in DOMAIN agents
           THEN agents' = [agents EXCEPT
                             ![DictGet(content, S_agent_id)].status =
                               JStr(S_offline)]
           ELSE UNCHANGED agents
    /\ Advance(Orch)
    /\ Invoked(Orch, "_handle_agent_offline")
    /\ UNCHANGED <<now, typed, environ, baseVars, capability_map,
                   system_stats, pending_requests, active_workflows, tasks,
                   routed, timeline, budget, uuid_count, codecVars>>

\* the handlers whose body is "pass": _handle_capability_query,
\* _handle_route_request, _handle_workflow_request, _handle_task_response
PassHandlers ==
    {"_handle_capability_query", "_handle_route_request",
     "_handle_workflow_request", "_handle_task_response"}

HandlePass ==
    /\ \E h \in PassHandlers :
         /\ Accepts(Orch, h)
         /\ Invoked(Orch, h)
    /\ Advance(Orch)
    /\ UNCHANGED <<now, typed, environ, baseVars, orchVars, timeline,
                   budget, uuid_count, codecVars>>

(***************************************************************************)
(* Plain user text: parse_mention and the command surface of the           *)
(* orchestrator.  In the texts the orchestrator sends, the pictograph is    *)
(* the one non-ASCII character and a backquote is written as a quote.      *)
(***************************************************************************)
S_bang_orchestrator == <<"!", "o", "r", "c", "h", "e", "s", "t", "r", "a", "t", "o", "r">>

S_bang_llm == <<"!", "l", "l", "m">>

S_arrow == <<"-", ">">>

S_help == <<"h", "e", "l", "p">>

S_agents == <<"a", "g", "e", "n", "t", "s">>

S_chain == <<"c", "h", "a", "i", "n">>

S_ask == <<"a", "s", "k">>

S_workflow == <<"w", "o", "r", "k", "f", "l", "o", "w">>

S_process == <<"p", "r", "o", "c", "e", "s", "s">>

S_invalid_chain == <<"é", " ", "I", "n", "v", "a", "l", "i", "d", " ", "c", "h", "a", "i", "n", " ", "f", "o", "r", "m", "a", "t", ".", " ", "U", "s", "e", ":", " ", "'", "c", "h", "a", "i", "n", " ", "a", "g", "e", "n", "t", "1", "-", ">", "a", "g", "e", "n", "t", "2", " ", "m", "e", "s", "s", "a", "g", "e", "'">>

S_missing_message == <<"é", " ", "M", "i", "s", "s", "i", "n", "g", " ", "m", "e", "s", "s", "a", "g", "e", ".", " ", "U", "s", "e", ":", " ", "'", "c", "h", "a", "i", "n", " ", "a", "g", "e", "n", "t", "1", "-", ">", "a", "g", "e", "n", "t", "2", " ", "\"", "y", "o", "u", "r", " ", "m", "e", "s", "s", "a", "g", "e", "\"", "'">>

S_not_available == <<"é", " ", "A", "g", "e", "n", "t", "s", " ", "n", "o", "t", " ", "a", "v", "a", "i", "l", "a", "b", "l", "e", ":", " ">>

S_started_chain == <<"é", " ", "S", "t", "a", "r", "t", "e", "d", " ", "c", "h", "a", "i", "n", " ", "w", "o", "r", "k", "f", "l", "o", "w", " ", "'">>

S_with == <<"'", " ", "w", "i", "t", "h", " ">>

S_agents_suffix == <<" ", "a", "g", "e", "n", "t", "s">>

S_workflow_tick == <<"é", " ", "W", "o", "r", "k", "f", "l", "o", "w", " ", "'">>

S_completed_with == <<"'", " ", "c", "o", "m", "p", "l", "e", "t", "e", "d", " ", "w", "i", "t", "h", " ", "s", "t", "a", "t", "u", "s", ":", " ">>

S_failed_to_route == <<"F", "a", "i", "l", "e", "d", " ", "t", "o", " ", "r", "o", "u", "t", "e", " ", "m", "e", "s", "s", "a", "g", "e">>

S_output_from == <<"O", "u", "t", "p", "u", "t", " ", "f", "r", "o", "m", " ">>

S_chain_prefix == <<"c", "h", "a", "i", "n", "_">>

\* parse_mention(body, agent_id): some = FALSE is None
parse_mention(body, id) ==
    LET mention == <<"@">> \o id
        at      == Find(body, mention)
    IN  IF at # 0
        THEN [some |-> TRUE,
              command |-> Strip(LStrip(Strip(From(body, at + Len(mention))),
                                       {":"}))]
        ELSE [some |-> FALSE, command |-> <<>>]

\* the first lines of OrchestratorAgent.process_user_message:
\* addressed = FALSE is the early return, command is the command text
OrchCommand(raw) ==
    LET body    == Strip(raw)
        mention == parse_mention(body, agent_id(Orch))
        bang    == StartsWith(body, S_bang_orchestrator)
    IN  [addressed |-> (mention.some /\ mention.command # <<>>) \/ bang,
         command   |-> IF bang THEN Strip(From(body, Len(S_bang_orchestrator) + 1))
                       ELSE mention.command]

\* the branch process_user_message takes for a command
CommandKind(command) ==
    LET c == Lower(command)
    IN  IF command = <<>> THEN "help"
        ELSE IF StartsWith(c, S_help) THEN "help"
        ELSE IF StartsWith(c, S_status) THEN "status"
        ELSE IF StartsWith(c, S_agents) THEN "agents"
        ELSE IF StartsWith(c, S_capabilities) THEN "capabilities"
        ELSE IF StartsWith(c, S_chain) THEN "chain"
        ELSE IF StartsWith(c, S_ask) THEN "ask"
        ELSE IF StartsWith(c, S_workflow) THEN "workflow"
        ELSE "unknown"

\* process_user_message returns at once: the text is not for the orchestrator
OrchIgnoreUserMessage ==
    /\ FromOther(Orch)
    /\ ~Event(Orch).cls.is_agent
    /\ ~OrchCommand(Event(Orch).body).addressed
    /\ Advance(Orch)
    /\ Invoked(Orch, "process_user_message")
    /\ UNCHANGED <<now, typed, environ, baseVars, orchVars, timeline,
                   budget, uuid_count, codecVars>>

\* LLMAgent.process_user_message returns at once: no mention and no "!llm"
LlmIgnoreUserMessage ==
    /\ FromOther(Llm)
    /\ ~Event(Llm).cls.is_agent
    /\ LET body == Strip(Event(Llm).body)
           m    == parse_mention(body, agent_id(Llm))
       IN  ~(m.some /\ m.command # <<>>) /\ ~StartsWith(body, S_bang_llm)
    /\ Advance(Llm)
    /\ Invoked(Llm, "process_user_message")
    /\ UNCHANGED <<now, typed, environ, baseVars, orchVars, timeline,
                   budget, uuid_count, codecVars>>

(***************************************************************************)
(* Chain workflows.                                                        *)
(***************************************************************************)
WorkflowStep(id, input_data) ==
    [agent_id |-> id, action |-> S_process, input_data |-> input_data,
     output |-> JNull, status |-> S_pending, error |-> JNull]

\* the Workflow _create_chain_workflow builds
ChainWorkflow(workflow_id, names, message, requester, room_id) ==
    [id |-> workflow_id,
     name |-> S_chain_prefix \o workflow_id,
     steps |-> [i \in 1..Len(names) |->
                  WorkflowStep(names[i], IF i = 1 THEN JStr(message) ELSE JNull)],
     requester |-> requester,
     room_id |-> room_id,
     created_at |-> now,
     status |-> S_pending,
     current_step |-> 0,
     context |-> JDict(<<>>)]

\* a registered agent that passes is_online()
Available(id) ==
    JStr(id) \in DOMAIN agents
    /\ is_online(agents[JStr(id)], DefaultTimeoutMinutes)

\* OrchestratorAgent._handle_chain_command, with _create_chain_workflow
HandleChainCommand ==
    /\ FromOther(Orch)
    /\ ~Event(Orch).cls.is_agent
    /\ OrchCommand(Event(Orch).body).addressed
    /\ CommandKind(OrchCommand(Event(Orch).body).command) = "chain"
    /\ LET command == OrchCommand(Event(Orch).body).command
           parts   == Strip(From(command, 6))
           chain_and_msg == SplitOnce(parts, <<" ">>)
           names   == LET raw == Split(chain_and_msg[1], S_arrow)
                      IN  [i \in 1..Len(raw) |-> Strip(raw[i])]
           missing_agents == SelectSeq(names, LAMBDA id : ~Available(id))
           workflow_id == SubSeq(uuid4(uuid_count + 1), 1, WorkflowIdLen)
           reply ==
             IF ~Contains(parts, S_arrow) THEN S_invalid_chain
             ELSE IF Len(chain_and_msg) # 2 THEN S_missing_message
             ELSE IF missing_agents # <<>>
             THEN S_not_available \o Join(missing_agents, <<",", " ">>)
             ELSE S_started_chain \o workflow_id \o S_with
                  \o IntStr(Len(names)) \o S_agents_suffix
           accepted == /\ Contains(parts, S_arrow)
                       /\ Len(chain_and_msg) = 2
                       /\ missing_agents = <<>>
       IN  /\ IF accepted
              THEN /\ active_workflows' =
                        [w \in DOMAIN active_workflows \cup {workflow_id} |->
                           IF w = workflow_id
                           THEN ChainWorkflow(workflow_id, names,
                                              chain_and_msg[2],
                                              Event(Orch).sender, RoomId)
                           ELSE active_workflows[w]]
                   /\ tasks' =
                        [w \in DOMAIN tasks \cup {workflow_id} |->
                           IF w = workflow_id
                           THEN [pc |-> "created", i |-> 0,
                                 request_id |-> <<>>, ok |-> FALSE]
                           ELSE tasks[w]]
                   /\ uuid_count' = uuid_count + 1
              ELSE UNCHANGED <<active_workflows, tasks, uuid_count>>
           /\ \E ok \in SendOutcomes(Orch) :
                /\ timeline' = Sent(timeline, Orch, reply, ok)
                /\ budget' = Spend(ok)
    /\ Advance(Orch)
    /\ Invoked(Orch, "process_user_message")
    /\ UNCHANGED <<now, typed, environ, baseVars, agents, capability_map,
                   system_stats, pending_requests, routed, codecVars>>

\* the text of the terminal notification of _execute_workflow
CompletionText(workflow_id, wf_status) ==
    S_workflow_tick \o workflow_id \o S_completed_with \o wf_status

\* the end of _execute_workflow without the test of workflow.status
Finish_always_completed(w, wf, stats) ==
    /\ active_workflows' = [active_workflows EXCEPT
                              ![w] = [wf EXCEPT !.status = S_completed]]
    /\ system_stats' = [stats EXCEPT !.workflows_completed = @ + 1]
    /\ \E ok \in SendOutcomes(Orch) :
         /\ timeline' = Sent(timeline, Orch, CompletionText(w, S_completed), ok)
         /\ budget' = Spend(ok)
         /\ tasks' = [tasks EXCEPT ![w] =
                        [pc |-> "notifying", i |-> tasks[w].i,
                         request_id |-> <<>>, ok |-> ok]]

\* _execute_workflow after the loop: the final status and the notification
Finish(w, wf, stats) ==
    LET completed == wf.status # S_failed
        wf2 == IF completed THEN [wf EXCEPT !.status = S_completed] ELSE wf
    IN  /\ active_workflows' = [active_workflows EXCEPT ![w] = wf2]
        /\ system_stats' =
             IF completed
             THEN [stats EXCEPT !.workflows_completed = @ + 1] ELSE stats
        /\ \E ok \in SendOutcomes(Orch) :
             /\ timeline' = Sent(timeline, Orch, CompletionText(w, wf2.status), ok)
             /\ budget' = Spend(ok)
             /\ tasks' = [tasks EXCEPT ![w] =
                            [pc |-> "notifying", i |-> tasks[w].i,
                             request_id |-> <<>>, ok |-> ok]]

\* the step fails, and workflow.status is left as it is
FailStep_step_only(wf, i) ==
    [wf EXCEPT !.steps[i + 1].status = S_failed,
               !.steps[i + 1].error = JStr(S_failed_to_route)]

\* the step fails: "Failed to route message"
FailStep(wf, i) ==
    [wf EXCEPT !.steps[i + 1].status = S_failed,
               !.steps[i + 1].error = JStr(S_failed_to_route),
               !.status = S_failed]

\* every step is given the message of the command
StepInput_first_message(wf, i) == wf.steps[1].input_data

\* the input _execute_workflow routes for step i (0-based)
StepInput(wf, i) ==
    IF i = 0 THEN wf.steps[1].input_data ELSE wf.steps[i].output

\* _execute_workflow from the top of the loop body for step i up to the
\* send of _route_message_to_agent
BeginStep(w, wf0, i) ==
    LET wf == [wf0 EXCEPT !.steps[i + 1].status = S_running,
                          !.current_step = i]
        input_data == StepInput(wf, i)
        request_id == uuid4(uuid_count + 1)
        msg_id     == uuid4(uuid_count + 2)
        target     == wf.steps[i + 1].agent_id
        context    == JDict(<<Pair(S_request_id, JStr(request_id)),
                              Pair(S_requester, JStr(wf.requester)),
                              Pair(S_room_id, JStr(wf.room_id))>>)
    IN  /\ pending_requests' =
             [r \in DOMAIN pending_requests \cup {request_id} |->
                IF r = request_id
                THEN [agent_id |-> target, requester |-> wf.requester,
                      room_id |-> wf.room_id, timestamp |-> now]
                ELSE pending_requests[r]]
        /\ uuid_count' = uuid_count + 2
        /\ IF coordination_room[Orch] = NoRoom
           THEN /\ routed' = routed \cup
                      {[wf |-> w, step |-> i, request_id |-> request_id,
                        msg_id |-> msg_id, content |-> input_data,
                        sent |-> FALSE]}
                /\ Finish(w, FailStep(wf, i), system_stats)
           ELSE /\ \E ok \in SendOutcomes(Orch) :
                     /\ timeline' =
                          Sent(timeline, Orch,
                               SendToAgentBody(Orch, uuid_count + 2, JStr(target),
                                               S_workflow_step, input_data,
                                               context),
                               ok)
                     /\ budget' = Spend(ok)
                     /\ tasks' = [tasks EXCEPT ![w] =
                                    [pc |-> "routing", i |-> i,
                                     request_id |-> request_id, ok |-> ok]]
                /\ routed' = routed \cup
                      {[wf |-> w, step |-> i, request_id |-> request_id,
                        msg_id |-> msg_id, content |-> input_data,
                        sent |-> TRUE]}
                /\ active_workflows' = [active_workflows EXCEPT ![w] = wf]
                /\ UNCHANGED system_stats

\* the task created by _create_chain_workflow starts to run
ExecuteWorkflow(w) ==
    /\ pc[Orch] = "syncing"
    /\ tasks[w].pc = "created"
    /\ BeginStep(w, [active_workflows[w] EXCEPT !.status = S_running], 0)
    /\ UNCHANGED <<now, typed, environ, baseVars, agents, capability_map,
                   cursor, handled, codecVars>>

\* a failed route ends the task at once ("return" for "break"): no
\* notification is sent
RouteReturn_return(w) ==
    /\ pc[Orch] = "syncing"
    /\ tasks[w].pc = "routing"
    /\ IF tasks[w].ok
       THEN /\ system_stats' = [system_stats EXCEPT !.messages_routed = @ + 1]
            /\ tasks' = [tasks EXCEPT ![w].pc = "sleeping"]
            /\ UNCHANGED active_workflows
       ELSE /\ active_workflows' =
                 [active_workflows EXCEPT
                    ![w] = FailStep(active_workflows[w], tasks[w].i)]
            /\ tasks' = [tasks EXCEPT ![w].pc = "done"]
            /\ UNCHANGED system_stats
    /\ UNCHANGED <<now, typed, environ, baseVars, agents, capability_map,
                   pending_requests, routed, netVars, codecVars>>

\* a failed route marks every workflow in the table "failed"
RouteReturn_fails_all(w) ==
    /\ pc[Orch] = "syncing"
    /\ tasks[w].pc = "routing"
    /\ IF tasks[w].ok
       THEN /\ system_stats' = [system_stats EXCEPT !.messages_routed = @ + 1]
            /\ tasks' = [tasks EXCEPT ![w].pc = "sleeping"]
            /\ UNCHANGED <<active_workflows, timeline, budget>>
       ELSE /\ active_workflows' =
                 [v \in DOMAIN active_workflows |->
                    IF v = w THEN FailStep(active_workflows[w], tasks[w].i)
                    ELSE [active_workflows[v] EXCEPT !.status = S_failed]]
            /\ UNCHANGED system_stats
            /\ \E ok \in SendOutcomes(Orch) :
                 /\ timeline' = Sent(timeline, Orch, CompletionText(w, S_failed), ok)
                 /\ budget' = Spend(ok)
                 /\ tasks' = [tasks EXCEPT ![w] =
                                [pc |-> "notifying", i |-> tasks[w].i,
                                 request_id |-> <<>>, ok |-> ok]]
    /\ UNCHANGED <<now, typed, environ, baseVars, agents, capability_map,
                   pending_requests, routed, cursor, handled, uuid_count,
                   codecVars>>

\* the send of _route_message_to_agent returns
RouteReturn(w) ==
    /\ pc[Orch] = "syncing"
    /\ tasks[w].pc = "routing"
    /\ IF tasks[w].ok
       THEN /\ system_stats' = [system_stats EXCEPT !.messages_routed = @ + 1]
            /\ tasks' = [tasks EXCEPT ![w].pc = "sleeping"]
            /\ UNCHANGED <<active_workflows, timeline, budget>>
       ELSE Finish(w, FailStep(active_workflows[w], tasks[w].i), system_stats)
    /\ UNCHANGED <<now, typed, environ, baseVars, agents, capability_map,
                   pending_requests, routed, cursor, handled, uuid_count,
                   codecVars>>

\* asyncio.sleep(2) returns and the loop goes on to the next step with the
\* step it leaves still "running"
SleepDone_still_running(w) ==
    /\ pc[Orch] = "syncing"
    /\ tasks[w].pc = "sleeping"
    /\ LET i  == tasks[w].i
           wf == active_workflows[w]
       IN  IF i + 1 < Len(wf.steps)
           THEN BeginStep(w, wf, i + 1)
           ELSE /\ Finish(w, wf, system_stats)
                /\ UNCHANGED <<pending_requests, routed, uuid_count>>
    /\ UNCHANGED <<now, typed, environ, baseVars, agents, capability_map,
                   cursor, handled, codecVars>>

\* asyncio.sleep(2) returns and every step of the workflow is completed
SleepDone_completes_all(w) ==
    /\ pc[Orch] = "syncing"
    /\ tasks[w].pc = "sleeping"
    /\ LET i  == tasks[w].i
           wf == [active_workflows[w] EXCEPT
                    !.steps = [k \in DOMAIN @ |->
                                 [@[k] EXCEPT !.status = S_completed]],
                    !.steps[i + 1].output =
                       JStr(S_output_from \o active_workflows[w].steps[i + 1].agent_id)]
       IN  IF i + 1 < Len(wf.steps)
           THEN BeginStep(w, wf, i + 1)
           ELSE /\ Finish(w, wf, system_stats)
                /\ UNCHANGED <<pending_requests, routed, uuid_count>>
    /\ UNCHANGED <<now, typed, environ, baseVars, agents, capability_map,
                   cursor, handled, codecVars>>

\* asyncio.sleep(2) returns: the step is completed with the placeholder output
SleepDone(w) ==
    /\ pc[Orch] = "syncing"
    /\ tasks[w].pc = "sleeping"
    /\ LET i  == tasks[w].i
           wf == [active_workflows[w] EXCEPT
                    !.steps[i + 1].status = S_completed,
                    !.steps[i + 1].output =
                       JStr(S_output_from \o active_workflows[w].steps[i + 1].agent_id)]
       IN  IF i + 1 < Len(wf.steps)
           THEN BeginStep(w, wf, i + 1)
           ELSE /\ Finish(w, wf, system_stats)
                /\ UNCHANGED <<pending_requests, routed, uuid_count>>
    /\ UNCHANGED <<now, typed, environ, baseVars, agents, capability_map,
                   cursor, handled, codecVars>>

\* the send of the terminal notification returns: the task ends
NotifyReturn(w) ==
    /\ pc[Orch] = "syncing"
    /\ tasks[w].pc = "notifying"
    /\ tasks' = [tasks EXCEPT ![w].pc = "done"]
    /\ UNCHANGED <<now, typed, environ, baseVars, agents, capability_map,
                   system_stats, pending_requests, active_workflows, routed,
                   netVars, codecVars>>

\* what _generate_response returns in the runs explored: a text (it returns
\* None when the language model cannot be reached)
LlmResponses == {JStr(<<"R">>)}

\* LLMAgent._handle_workflow_step
HandleWorkflowStep ==
    /\ Accepts(Llm, "_handle_workflow_step")
    /\ \E response \in LlmResponses :
         \E ok \in ReplyOutcomes(Llm, Event(Llm).cls.msg) :
           /\ timeline' =
                Sent(timeline, Llm,
                     ReplyBody(Llm, uuid_count + 1, Event(Llm).cls.msg,
                               JDict(<<Pair(S_output, response),
                                       Pair(S_status, JStr(S_completed))>>)),
                     ok)
           /\ budget' = Spend(ok)
    /\ uuid_count' = uuid_count + 1
    /\ Advance(Llm)
    /\ Invoked(Llm, "_handle_workflow_step")
    /\ UNCHANGED <<now, typed, environ, baseVars, orchVars, codecVars>>

(***************************************************************************)
(* What the human user, or a foreign program on the user's account, types. *)
(***************************************************************************)
S_rag == <<"r", "a", "g">>

S_zed == <<"z", "e", "d">>

S_ping == <<"p", "i", "n", "g">>

S_hi == <<"h", "i">>

S_x == <<"x">>

ChainThree == <<"@", "o", "r", "c", "h", ":", " ", "c", "h", "a", "i", "n", " ", "l", "l", "m", "-", ">", "l", "l", "m", "-", ">", "l", "l", "m", " ", "h", "i">>

\* an envelope written by a foreign agent "rag"; n numbers its id
Foreign(n, target, message_type, content) ==
    AgentMessage(JStr(S_x \o IntStr(n)), JStr(S_rag), target,
                 JStr(message_type), content, JDict(<<>>),
                 DateTime(2024, 1, 1, 0, 0, 0, 0), JNull)

RagPresence ==
    JDict(<<Pair(S_agent_id, JStr(S_rag)),
            Pair(S_display_name, JStr(S_rag)),
            Pair(S_capabilities, JList(<<JStr(S_x)>>)),
            Pair(S_status, JStr(S_online))>>)

\* an unregistered type, addressed to the orchestrator
PingOrch ==
    formatted_content(agent_id(Orch),
                      Foreign(1, JStr(agent_id(Orch)), S_ping, JNull))

\* an unregistered type, broadcast
PingRoom == formatted_content(S_room, Foreign(2, JStr(S_star), S_ping, JStr(S_hi)))

\* a registered type, addressed to an agent that is not in the room
OnlineZed ==
    formatted_content(S_zed, Foreign(4, JStr(S_zed), S_agent_online, RagPresence))

\* the presence announcement of the foreign agent
RagOnline ==
    formatted_content(S_room, Foreign(6, JStr(S_star), S_agent_online, RagPresence))

\* envelopes for the dispatcher
EnvelopeBodies == {PingOrch, PingRoom, OnlineZed}

PresenceBodies == {RagOnline}

\* chain commands
CommandBodies == {ChainThree}

\* the timeline entries of a set of typed texts
Typed(bodies) == {Entry(UserId, body, TRUE) : body \in bodies}

EnvelopeEntries == Typed(EnvelopeBodies)

PresenceEntries == Typed(PresenceBodies)

CommandEntries == Typed(CommandBodies)

(***************************************************************************)
(* The system: both agents constructed, nothing started.                   *)
(***************************************************************************)
NoMessage == FromDictFail.msg

CodecOff ==
    /\ cm = NoMessage
    /\ ctarget = <<>>
    /\ cwire = <<>>
    /\ cdecoded = NotAgentMessage
    /\ cpc = "off"

Constructed ==
    /\ now = 0
    /\ uuid_count = 0
    /\ timeline = <<>>
    /\ typed = {}
    /\ pc = [a \in Agents |-> "created"]
    /\ status = [a \in Agents |-> S_offline]
    /\ coordination_room = [a \in Agents |-> NoRoom]
    /\ joined_rooms = [a \in Agents |-> {}]
    /\ message_handlers =
         [a \in Agents |-> IF a = Orch THEN OrchHandlers ELSE LlmHandlers]
    /\ cursor = [a \in Agents |-> 1]
    /\ handled = {}
    /\ agents = EmptyMap
    /\ capability_map = EmptyMap
    /\ system_stats = [messages_routed |-> 0, workflows_completed |-> 0,
                       agents_discovered |-> 0, uptime_start |-> 0]
    /\ pending_requests = EmptyMap
    /\ active_workflows = EmptyMap
    /\ tasks = EmptyMap
    /\ routed = {}

\* every agent process has COORDINATION_ROOM_ID set
RoomConfigured == environ = [a \in Agents |-> RoomId]

(***************************************************************************)
(* The dispatcher: envelopes and chat typed into the room while the two    *)
(* agents start and run.                                                   *)
(***************************************************************************)
InitDispatch ==
    /\ Constructed
    /\ RoomConfigured
    /\ budget = Budget(0, 0, 0)
    /\ CodecOff

NextDispatch ==
    \/ \E a \in Agents : Login(a)
    \/ \E a \in Agents : JoinCoordinationRoom(a)
    \/ \E a \in Agents : AnnouncePresence(a)
    \/ \E entry \in EnvelopeEntries : UserSend(entry)
    \/ \E a \in Agents : DropOwn(a)
    \/ \E a \in Agents : IgnoreOtherTarget(a)
    \/ \E a \in Agents : HandleUnknown(a)
    \/ HandleAgentOnline

SpecDispatch == InitDispatch /\ [][NextDispatch]_vars

(***************************************************************************)
(* The registry: presence announcements, departures and the clock.         *)
(***************************************************************************)
InitRegistry ==
    /\ Constructed
    /\ RoomConfigured
    /\ budget = Budget(0, 0, 0)
    /\ CodecOff

NextRegistry ==
    \/ \E a \in Agents : Login(a)
    \/ \E a \in Agents : JoinCoordinationRoom(a)
    \/ \E a \in Agents : AnnouncePresence(a)
    \/ \E a \in Agents : Stop(a)
    \/ Tick
    \/ \E entry \in PresenceEntries : UserSend(entry)
    \/ \E a \in Agents : DropOwn(a)
    \/ \E a \in Agents : IgnoreOtherTarget(a)
    \/ \E a \in Agents : HandleUnknown(a)
    \/ HandleAgentOnline
    \/ HandleAgentOffline

SpecRegistry == InitRegistry /\ [][NextRegistry]_vars

(***************************************************************************)
(* Chain workflows: chain commands typed by the user, the execution tasks  *)
(* and the LLM agent that serves the steps.                                *)
(***************************************************************************)
InitWorkflow ==
    /\ Constructed
    /\ RoomConfigured
    /\ budget = Budget(0, 0, MaxSendFailures)
    /\ CodecOff

NextWorkflow ==
    \/ \E a \in Agents : Login(a)
    \/ \E a \in Agents : JoinCoordinationRoom(a)
    \/ \E a \in Agents : AnnouncePresence(a)
    \/ \E entry \in CommandEntries : UserSend(entry)
    \/ \E a \in Agents : DropOwn(a)
    \/ \E a \in Agents : HandleUnknown(a)
    \/ HandleAgentOnline
    \/ LlmIgnoreUserMessage
    \/ HandleChainCommand
    \/ \E w \in DOMAIN tasks : ExecuteWorkflow(w)
    \/ \E w \in DOMAIN tasks : RouteReturn(w)
    \/ \E w \in DOMAIN tasks : SleepDone(w)
    \/ \E w \in DOMAIN tasks : NotifyReturn(w)
    \/ HandleWorkflowStep

SpecWorkflow == InitWorkflow /\ [][NextWorkflow]_vars

(***************************************************************************)
(* The codec alone: an AgentMessage is encoded as send_to_agent and        *)
(* broadcast_to_agents encode it, and the wire text is decoded as the      *)
(* receiver decodes it.  The messages are the valid ones: string id,       *)
(* sender, target and message_type, JSON content, a JSON object as         *)
(* context, a naive timestamp, and an optional reply_to.                   *)
(***************************************************************************)
\* a text with every character json.dumps escapes
S_tricky == <<"a", "\"", "\\", "\n", NonAscii, "/", "\t", ":", " ", "{">>

CodecContents ==
    {JNull, JStr(<<>>), JStr(S_tricky), JInt(0), JInt(-20), JBool(TRUE),
     JBool(FALSE), JList(<<>>), JList(<<JInt(1), JStr(S_hi), JNull>>),
     JDict(<<>>),
     JDict(<<Pair(S_output, JStr(S_tricky)),
             Pair(S_status, JList(<<JDict(<<Pair(S_x, JInt(7))>>)>>))>>)}

CodecContexts ==
    {JDict(<<>>),
     JDict(<<Pair(S_request_id, JStr(uuid4(1))), Pair(S_room_id, JStr(RoomId))>>)}

CodecTimestamps ==
    {DateTime(2024, 1, 1, 0, 0, 0, 0),
     DateTime(2024, 12, 31, 23, 59, 59, 999999),
     DateTime(1, 1, 1, 0, 0, 0, 1)}

CodecTypes == {S_workflow_step, S_tricky}

CodecReplyTo == {JNull, JStr(uuid4(2))}

\* the wire targets: an agent id, the broadcast keyword, a full user id
CodecTargets == {agent_id(Llm), S_room, LlmUsername}

CodecMessages ==
    {AgentMessage(JStr(uuid4(3)), JStr(agent_id(Orch)), x[1], JStr(x[2]),
                  x[3], x[4], x[5], x[6]) :
       x \in {JStr(agent_id(Llm)), JStr(S_star)} \X CodecTypes \X CodecContents
             \X CodecContexts \X CodecTimestamps \X CodecReplyTo}

InitCodec ==
    /\ Constructed
    /\ RoomConfigured
    /\ budget = Budget(0, 0, 0)
    /\ cm \in CodecMessages
    /\ ctarget \in CodecTargets
    /\ cwire = <<>>
    /\ cdecoded = NotAgentMessage
    /\ cpc = "init"

\* send_to_agent / broadcast_to_agents: the wire text of cm for ctarget
CodecEncode ==
    /\ cpc = "init"
    /\ cwire' = formatted_content(ctarget, cm)
    /\ cpc' = "encoded"
    /\ UNCHANGED <<now, typed, environ, baseVars, orchVars, netVars, cm,
                   ctarget, cdecoded>>

\* _is_agent_message and _handle_agent_message on the wire text
CodecDecode ==
    /\ cpc = "encoded"
    /\ cdecoded' = Classify(cwire)
    /\ cpc' = "decoded"
    /\ UNCHANGED <<now, typed, environ, baseVars, orchVars, netVars, cm,
                   ctarget, cwire>>

NextCodec == CodecEncode \/ CodecDecode

SpecCodec == InitCodec /\ [][NextCodec]_vars

(***************************************************************************)
(* The properties checked.                                                 *)
(***************************************************************************)
EnvelopeFields ==
    {"id", "sender", "target", "message_type", "content", "context",
     "timestamp", "reply_to"}

\* C1: decoding the wire text "@<t>: <json of m>" of a valid AgentMessage m
\* gives an envelope equal to m in all eight fields (and the target t).
C1_RoundTrip ==
    cpc = "decoded" =>
        /\ cdecoded.is_agent
        /\ cdecoded.ok
        /\ cdecoded.target = ctarget
        /\ \A f \in EnvelopeFields : cdecoded.msg[f] = cm[f]

\* a message with escapes in its content, microseconds and a reply_to has
\* made the round trip
C1_Witness ==
    /\ cpc = "decoded"
    /\ cdecoded.ok
    /\ cm.content = JStr(S_tricky)
    /\ cm.timestamp.microsecond # 0
    /\ cm.reply_to # JNull
    /\ ctarget = LlmUsername

\* context["reply_to"] of the envelope in timeline entry e, None without one
ReplyToOf(e) ==
    IF /\ e.cls.is_agent
       /\ e.cls.ok
       /\ e.cls.msg.context.k = "dict"
       /\ DictHas(e.cls.msg.context, S_reply_to)
    THEN DictGet(e.cls.msg.context, S_reply_to)
    ELSE JNull

\* the sends of agent a (delivered or refused by the transport) that carry a
\* reply to the envelope in timeline entry i
RepliesTo(a, i) ==
    {j \in 1..Len(timeline) :
        /\ timeline[j].sender = username(a)
        /\ timeline[i].cls.ok
        /\ ReplyToOf(timeline[j]) = timeline[i].cls.msg.id}

\* timeline entry i is an envelope from another sender, addressed to agent a
\* or to the broadcast keyword, of a type a has no handler for
UnknownTypeFor(a, i) ==
    LET e == timeline[i]
    IN  /\ e.sender # username(a)
        /\ e.cls.is_agent
        /\ e.cls.ok
        /\ e.cls.target \in {agent_id(a), S_room}
        /\ e.cls.msg.message_type.k = "str"
        /\ e.cls.msg.message_type.s \notin DOMAIN message_handlers[a]

\* timeline entry j is a reply to the sender of entry i whose content has an
\* "error" text that names the type of entry i
ErrorReplyTo(j, i) ==
    LET r == timeline[j].cls.msg
        m == timeline[i].cls.msg
    IN  /\ r.target = m.sender
        /\ timeline[j].cls.target = PyStr(m.sender)
        /\ r.content.k = "dict"
        /\ DictHas(r.content, S_error)
        /\ DictGet(r.content, S_error).k = "str"
        /\ EndsWith(DictGet(r.content, S_error).s, m.message_type.s)

\* C2: once an agent has processed an envelope addressed to itself or to the
\* broadcast keyword whose type it has no handler for, it has sent exactly
\* one reply to it, to the original sender, whose content has an "error" text
\* naming the type.
C2_UnknownTypeOneErrorReply ==
    \A h \in handled :
        UnknownTypeFor(h.agent, h.idx) =>
            /\ Cardinality(RepliesTo(h.agent, h.idx)) = 1
            /\ \A j \in RepliesTo(h.agent, h.idx) : ErrorReplyTo(j, h.idx)

\* the orchestrator has processed the unknown type addressed to it and the
\* language-model agent the broadcast one
C2_Witness ==
    /\ \E h \in handled :
         /\ h.agent = Orch
         /\ timeline[h.idx].body = PingOrch
         /\ UnknownTypeFor(Orch, h.idx)
    /\ \E h \in handled :
         /\ h.agent = Llm
         /\ timeline[h.idx].body = PingRoom
         /\ UnknownTypeFor(Llm, h.idx)

\* timeline entry i is an envelope from another sender whose routing target
\* is neither agent a nor the broadcast keyword
OtherTargetFor(a, i) ==
    LET e == timeline[i]
    IN  /\ e.sender # username(a)
        /\ e.cls.is_agent
        /\ e.cls.target \notin {agent_id(a), S_room}

\* C3: an envelope whose routing target is neither the agent's identifier
\* nor the broadcast keyword makes the agent invoke no handler and send no
\* reply, whatever its type.
C3_OtherTargetIgnored ==
    \A a \in Agents :
        \A i \in 1..Len(timeline) :
            OtherTargetFor(a, i) =>
                /\ \A h \in handled :
                     h.agent = a /\ h.idx = i => h.handler = NoHandler
                /\ RepliesTo(a, i) = {}

\* the orchestrator has processed, without a handler, an envelope for another
\* agent of a type it has a handler for and one of a type it has none for
C3_Witness ==
    /\ \E h \in handled :
         /\ h.agent = Orch
         /\ h.handler = NoHandler
         /\ timeline[h.idx].body = OnlineZed
         /\ OtherTargetFor(Orch, h.idx)
    /\ \E h \in handled :
         /\ h.agent = Orch
         /\ h.handler = NoHandler
         /\ OtherTargetFor(Orch, h.idx)
         /\ timeline[h.idx].cls.ok
         /\ timeline[h.idx].cls.msg.message_type.s
               \notin DOMAIN message_handlers[Orch]

\* C4: is_online is true exactly when the status is "online" and last_seen
\* is within the timeout; in particular it is false after agent_offline.
C4_OnlineIffStatusAndRecent ==
    \A id \in DOMAIN agents :
        \A T \in 1..DefaultTimeoutMinutes :
            is_online(agents[id], T) <=>
                /\ agents[id].status = JStr(S_online)
                /\ now - agents[id].last_seen < T * 60

\* the times at which _handle_agent_online ran for an announcement of id
RegisteredAt(id) ==
    {h.at : h \in {x \in handled :
                     /\ x.agent = Orch
                     /\ x.handler = "_handle_agent_online"
                     /\ OnlineContentOk(timeline[x.idx].cls.msg.content)
                     /\ DictGet(timeline[x.idx].cls.msg.content, S_agent_id) = id}}

LastRegisteredAt(id) ==
    CHOOSE t \in RegisteredAt(id) : \A u \in RegisteredAt(id) : u <= t

\* C5: for every timeout T > 0, an agent is online at the time its last
\* agent_online was processed, and not online once the time since then
\* exceeds T.
C5_OnlineUntilTimeout ==
    \A id \in DOMAIN agents :
        /\ RegisteredAt(id) # {}
        /\ \A T \in 1..DefaultTimeoutMinutes :
             /\ now = LastRegisteredAt(id) => is_online(agents[id], T)
             /\ now - LastRegisteredAt(id) > T * 60 => ~is_online(agents[id], T)

\* an agent registered as online, and the time since then beyond a timeout
C5_Witness ==
    \E id \in DOMAIN agents :
        /\ agents[id].status = JStr(S_online)
        /\ now - LastRegisteredAt(id) > (DefaultTimeoutMinutes - 1) * 60
        /\ ~is_online(agents[id], DefaultTimeoutMinutes - 1)
        /\ \E h \in handled : h.handler = "_handle_agent_online" /\ h.at = 0

\* _execute_workflow of workflow w has left its loop over the steps
LoopExited(w) == tasks[w].pc \in {"notifying", "done"}

\* the envelopes the orchestrator has processed that answer the request r
\* routed for a step: a "..._response" whose context.reply_to is the id of
\* the request
RepliesReceived(r) ==
    {h \in handled :
        /\ h.agent = Orch
        /\ timeline[h.idx].cls.is_agent
        /\ timeline[h.idx].cls.ok
        /\ timeline[h.idx].cls.msg.message_type.k = "str"
        /\ EndsWith(timeline[h.idx].cls.msg.message_type.s, S_response_suffix)
        /\ ReplyToOf(timeline[h.idx]) \in {JStr(r.msg_id), JStr(r.request_id)}}

\* step k (0-based) of workflow w has been answered
Answered(w, k) ==
    \E r \in routed : r.wf = w /\ r.step = k /\ RepliesReceived(r) # {}

\* C6: when the loop is left and k is the first step no reply arrived for,
\* the workflow is "failed", the steps before k are "completed", step k is
\* "failed" and the steps after k are "pending".
C6_MissingReplyFailsWorkflow ==
    \A w \in DOMAIN tasks :
        LoopExited(w) =>
            LET steps == active_workflows[w].steps
            IN  \A k \in 0..(Len(steps) - 1) :
                    (~Answered(w, k) /\ \A j \in 0..(k - 1) : Answered(w, j)) =>
                        /\ active_workflows[w].status = S_failed
                        /\ steps[k + 1].status = S_failed
                        /\ \A j \in 0..(k - 1) : steps[j + 1].status = S_completed
                        /\ \A j \in (k + 1)..(Len(steps) - 1) :
                             steps[j + 1].status = S_pending

\* the sends of the orchestrator that carry the request r routed for a step
RequestsOf(r) ==
    {j \in 1..Len(timeline) :
        /\ timeline[j].sender = username(Orch)
        /\ timeline[j].cls.is_agent
        /\ timeline[j].cls.ok
        /\ timeline[j].cls.msg.id = JStr(r.msg_id)}

Payloads(e) ==
    {e.cls.msg.content} \cup
    (IF e.cls.msg.content.k = "dict" /\ DictHas(e.cls.msg.content, S_output)
     THEN {DictGet(e.cls.msg.content, S_output)} ELSE {})

\* C8: a step is "completed" only when a correlated reply has been received
\* (type ending "_response", context.reply_to the id of the request), and
\* its output is the payload of that reply.
C8_CompletedOnlyAfterReply ==
    \A w \in DOMAIN active_workflows :
        LET steps == active_workflows[w].steps
        IN  \A k \in 0..(Len(steps) - 1) :
                steps[k + 1].status = S_completed =>
                    \E r \in routed :
                        /\ r.wf = w
                        /\ r.step = k
                        /\ \E h \in RepliesReceived(r) :
                             steps[k + 1].output \in Payloads(timeline[h.idx])

\* C9: once the loop is left the workflow is "completed" if every step is
\* "completed" and "failed" otherwise.
C9_FinalStatus ==
    \A w \in DOMAIN tasks :
        LoopExited(w) =>
            LET wf == active_workflows[w]
            IN  /\ wf.status \in {S_completed, S_failed}
                /\ wf.status = S_completed <=>
                     \A k \in 1..Len(wf.steps) : wf.steps[k].status = S_completed

\* a chain has ended with its first step completed, its second failed and
\* its third pending
C9_Witness ==
    \E w \in DOMAIN tasks :
        /\ LoopExited(w)
        /\ active_workflows[w].status = S_failed
        /\ active_workflows[w].steps[1].status = S_completed
        /\ active_workflows[w].steps[2].status = S_failed
        /\ active_workflows[w].steps[3].status = S_pending

\* the sends of the orchestrator (delivered or refused by the transport) of
\* the terminal notification of workflow w
Notifications(w) ==
    {j \in 1..Len(timeline) :
        /\ timeline[j].sender = username(Orch)
        /\ StartsWith(timeline[j].body,
                      S_workflow_tick \o w \o S_completed_with)}

\* C10: the run of a workflow sends its terminal notification exactly once,
\* when the loop is left, whatever the outcome: none before, one after, and
\* it names the final status.
C10_OneNotification ==
    \A w \in DOMAIN tasks :
        /\ Cardinality(Notifications(w)) = IF LoopExited(w) THEN 1 ELSE 0
        /\ \A j \in Notifications(w) :
             timeline[j].body = CompletionText(w, active_workflows[w].status)

\* the task of a failed workflow has ended, and the notification reached the
\* room
C10_Witness ==
    \E w \in DOMAIN tasks :
        /\ tasks[w].pc = "done"
        /\ active_workflows[w].status = S_failed
        /\ \E j \in Notifications(w) : timeline[j].ok

\* the send of the request r routed for a step was refused, or never made
RouteFailed(r) ==
    \/ ~r.sent
    \/ \E j \in RequestsOf(r) : ~timeline[j].ok

\* C11: once _execute_workflow has seen the route of step k fail, step k is
\* "failed" with an error, the workflow is "failed", the loop is left, the
\* later steps are "pending" and no request was routed for any of them.
C11_RouteFailureStopsWorkflow ==
    \A r \in routed :
        (RouteFailed(r) /\ tasks[r.wf].pc # "routing") =>
            LET wf == active_workflows[r.wf]
            IN  /\ wf.steps[r.step + 1].status = S_failed
                /\ wf.steps[r.step + 1].error = JStr(S_failed_to_route)
                /\ wf.status = S_failed
                /\ LoopExited(r.wf)
                /\ \A j \in (r.step + 2)..Len(wf.steps) :
                     wf.steps[j].status = S_pending
                /\ \A q \in routed : q.wf = r.wf => q.step <= r.step

\* the route of the first step of a three-step chain failed and the task has
\* ended
C11_Witness ==
    \E r \in routed :
        /\ r.step = 0
        /\ RouteFailed(r)
        /\ tasks[r.wf].pc = "done"
        /\ Len(active_workflows[r.wf].steps) = 3

\* C12: a step after the first is "running", or has a request routed for
\* it, only when the step before it is "completed".
C12_StepsInSequence ==
    \A w \in DOMAIN active_workflows :
        LET steps == active_workflows[w].steps
        IN  \A i \in 1..(Len(steps) - 1) :
                (\/ steps[i + 1].status # S_pending
                 \/ \E r \in routed : r.wf = w /\ r.step = i) =>
                    steps[i].status = S_completed

\* the third step of a chain is running
C12_Witness ==
    \E w \in DOMAIN active_workflows :
        /\ active_workflows[w].steps[3].status = S_running
        /\ \E r \in routed : r.wf = w /\ r.step = 2 /\ r.sent

(***************************************************************************)
(* Chain commands against a registry that changes: the LLM agent comes,    *)
(* goes and ages while the user types chain commands.                      *)
(***************************************************************************)
ChainTwo == <<"@", "o", "r", "c", "h", ":", " ", "c", "h", "a", "i", "n", " ", "l", "l", "m", "-", ">", "l", "l", "m", " ", "h", "i">>

ChainEntries == Typed({ChainTwo})

InitChain ==
    /\ Constructed
    /\ RoomConfigured
    /\ budget = Budget(0, 0, 0)
    /\ CodecOff

NextChain ==
    \/ \E a \in Agents : Login(a)
    \/ \E a \in Agents : JoinCoordinationRoom(a)
    \/ \E a \in Agents : AnnouncePresence(a)
    \/ Stop(Llm)
    \/ Tick
    \/ \E entry \in ChainEntries : UserSend(entry)
    \/ \E a \in Agents : DropOwn(a)
    \/ \E a \in Agents : HandleUnknown(a)
    \/ HandleAgentOnline
    \/ HandleAgentOffline
    \/ LlmIgnoreUserMessage
    \/ HandleChainCommand
    \/ \E w \in DOMAIN tasks : ExecuteWorkflow(w)
    \/ \E w \in DOMAIN tasks : RouteReturn(w)
    \/ \E w \in DOMAIN tasks : SleepDone(w)
    \/ \E w \in DOMAIN tasks : NotifyReturn(w)
    \/ HandleWorkflowStep

SpecChain == InitChain /\ [][NextChain]_vars

\* the agents a chain command names
ChainNames(body) ==
    LET parts == Strip(From(OrchCommand(body).command, 6))
        raw   == Split(SplitOnce(parts, <<" ">>)[1], S_arrow)
    IN  {Strip(raw[i]) : i \in 1..Len(raw)}

\* registered, status "online" and seen within the default timeout
RegisteredOnline(id) ==
    /\ JStr(id) \in DOMAIN agents
    /\ agents[JStr(id)].status = JStr(S_online)
    /\ now - agents[JStr(id)].last_seen < DefaultTimeoutMinutes * 60

\* the chain command the orchestrator is about to handle
ChainCommandAtHand ==
    /\ FromOther(Orch)
    /\ ~Event(Orch).cls.is_agent
    /\ OrchCommand(Event(Orch).body).addressed
    /\ CommandKind(OrchCommand(Event(Orch).body).command) = "chain"

NoWorkflowStarted ==
    /\ active_workflows' = active_workflows
    /\ tasks' = tasks
    /\ routed' = routed

\* C13: when the orchestrator handles a chain command that names an agent
\* that is not registered, or whose status is not "online", or that was last
\* seen longer ago than the timeout, no Workflow is added to
\* active_workflows and nothing is routed.
C13_ChainNeedsOnlineAgents ==
    [][(/\ ChainCommandAtHand
        /\ cursor'[Orch] # cursor[Orch]
        /\ \E id \in ChainNames(Event(Orch).body) : ~RegisteredOnline(id))
       => NoWorkflowStarted]_vars

\* the same with RegisteredAgent.is_online in the place of the status and
\* the age: what _handle_chain_command keeps
C13_ChainNeedsAvailableAgents ==
    [][(/\ ChainCommandAtHand
        /\ cursor'[Orch] # cursor[Orch]
        /\ \E id \in ChainNames(Event(Orch).body) : ~Available(id))
       => NoWorkflowStarted]_vars

\* a chain was rejected for an agent that is registered and was last seen
\* too long ago
C13_Witness ==
    /\ active_workflows = EmptyMap
    /\ \E a \in DOMAIN agents : now - agents[a].last_seen >= DefaultTimeoutMinutes * 60
    /\ \E i \in 1..Len(timeline) :
         /\ timeline[i].sender = username(Orch)
         /\ StartsWith(timeline[i].body, S_not_available)

(***************************************************************************)
(* The classifier alone: _is_agent_message, and the decoding that          *)
(* _handle_agent_message does after it, on texts put together from a       *)
(* prefix, a separator and a payload.                                      *)
(***************************************************************************)
ClassifierPrefixes ==
    {<<>>, <<"@">>, <<"@">> \o agent_id(Orch), <<"@">> \o S_room, agent_id(Orch)}

ClassifierSeparators == {<<>>, <<":">>, <<":", " ">>, <<" ">>}

\* a complete envelope
PayloadEnvelope == dumps(to_dict(Foreign(1, JStr(agent_id(Orch)), S_ping, JNull)))

\* JSON objects without the fields of an AgentMessage
PayloadEmptyObject == <<"{", "}">>

PayloadIdOnly == <<"{", "\"", "i", "d", "\"", ":", " ", "\"", "x", "1", "\"", "}">>

\* texts json.loads rejects
PayloadCut == <<"{", "\"", "i", "d", "\"", ":", " ", "\"", "x", "1", "\"">>

PayloadTrailing == <<"{", "}", " ", "x">>

PayloadBraces == <<"{", ".", ".", ".", "}">>

\* not an object
PayloadList == <<"[", "1", "]">>

ClassifierPayloads ==
    {<<>>, S_hi, PayloadEnvelope, PayloadEmptyObject, PayloadIdOnly,
     PayloadCut, PayloadTrailing, PayloadBraces, PayloadList}

ClassifierBodies ==
    {x[1] \o x[2] \o x[3] :
       x \in ClassifierPrefixes \X ClassifierSeparators \X ClassifierPayloads}

InitClassify ==
    /\ Constructed
    /\ RoomConfigured
    /\ budget = Budget(0, 0, 0)
    /\ cm = NoMessage
    /\ ctarget = <<>>
    /\ cwire \in ClassifierBodies
    /\ cdecoded = NotAgentMessage
    /\ cpc = "encoded"

NextClassify == CodecDecode

SpecClassify == InitClassify /\ [][NextClassify]_vars

\* the fields from_dict reads without a default
RequiredFields ==
    {S_id, S_sender, S_target, S_message_type, S_content, S_context, S_timestamp}

\* the text after the first ": " of body is a JSON object with the required
\* fields
ParsesWithRequiredFields(body) ==
    /\ Find(body, JsonMark) # 0
    /\ LET data == loads(From(body, Find(body, JsonMark) + 2))
       IN  /\ data.ok
           /\ data.val.k = "dict"
           /\ \A key \in RequiredFields : DictHas(data.val, key)

\* the text after the first ": " of body is JSON
ParsesAsJson(body) ==
    /\ Find(body, JsonMark) # 0
    /\ loads(From(body, Find(body, JsonMark) + 2)).ok

BeginsWithAt(body) == Len(body) >= 1 /\ body[1] = "@"

HasColon(body) == \E i \in 1..Len(body) : body[i] = ":"

\* C14: the classifier reports an envelope only for a text that begins with
\* "@", contains a colon and carries after the separator a JSON object with
\* the required AgentMessage fields; every other text is not an envelope.
C14_EnvelopeOnlyWithRequiredFields ==
    cpc = "decoded" =>
        (cdecoded.is_agent =>
            /\ BeginsWithAt(cwire)
            /\ HasColon(cwire)
            /\ ParsesWithRequiredFields(cwire))

\* what _is_agent_message keeps: it reports an envelope exactly for a text
\* that begins with "@" and carries JSON after its first ": {"
C14_EnvelopeIffParses ==
    cpc = "decoded" =>
        (cdecoded.is_agent <=> (BeginsWithAt(cwire) /\ ParsesAsJson(cwire)))

\* an object without the required fields was classified
C14_Witness ==
    /\ cpc = "decoded"
    /\ cwire = <<"@">> \o agent_id(Orch) \o <<":", " ">> \o PayloadIdOnly
    /\ cdecoded.is_agent
    /\ ~cdecoded.ok

(***************************************************************************)
(* Inbound texts that are not valid envelopes: chat, near-matches of an    *)
(* envelope and an announcement its handler cannot read, typed while the   *)
(* two agents start and run.                                               *)
(***************************************************************************)
S_hello == <<"h", "e", "l", "l", "o">>

\* looks like an envelope and is not JSON
NearMatchBroken == <<"@">> \o S_zed \o <<":", " ">> \o PayloadBraces

\* JSON after the separator, without the fields of an AgentMessage
NearMatchIdOnly == <<"@">> \o S_room \o <<":", " ">> \o PayloadIdOnly

\* a valid envelope whose content lacks what _handle_agent_online reads
OnlineNoName ==
    formatted_content(S_room,
        Foreign(7, JStr(S_star), S_agent_online,
                JDict(<<Pair(S_agent_id, JStr(S_rag))>>)))

InboundEntries == Typed({S_hello, NearMatchBroken, NearMatchIdOnly, OnlineNoName})

InitInbound ==
    /\ Constructed
    /\ RoomConfigured
    /\ budget = Budget(0, 0, 0)
    /\ CodecOff

NextInbound ==
    \/ \E a \in Agents : Login(a)
    \/ \E a \in Agents : JoinCoordinationRoom(a)
    \/ \E a \in Agents : AnnouncePresence(a)
    \/ \E entry \in InboundEntries : UserSend(entry)
    \/ \E a \in Agents : DropOwn(a)
    \/ \E a \in Agents : IgnoreOtherTarget(a)
    \/ \E a \in Agents : DecodeError(a)
    \/ \E a \in Agents : HandleUnknown(a)
    \/ HandleAgentOnline
    \/ OrchIgnoreUserMessage
    \/ LlmIgnoreUserMessage

SpecInbound == InitInbound /\ [][NextInbound]_vars

\* the callback of agent a has run for timeline entry i
Dispatched(a, i) == {h \in handled : h.agent = a /\ h.idx = i}

\* entry i decodes as a valid envelope
ValidEnvelope(i) == timeline[i].cls.is_agent /\ timeline[i].cls.ok

\* C15: an event from another sender whose body is not a valid envelope is
\* given to process_user_message, once, and to no agent-message handler.
C15_InvalidGoesToUserHandler ==
    \A h \in handled :
        (timeline[h.idx].sender # username(h.agent) /\ ~ValidEnvelope(h.idx)) =>
            /\ h.handler = "process_user_message"
            /\ Cardinality(Dispatched(h.agent, h.idx)) = 1

\* what the dispatcher keeps: a body that _is_agent_message turns down is
\* given to process_user_message, once
C15_UnclassifiedGoesToUserHandler ==
    \A h \in handled :
        (timeline[h.idx].sender # username(h.agent) /\ ~timeline[h.idx].cls.is_agent) =>
            /\ h.handler = "process_user_message"
            /\ Cardinality(Dispatched(h.agent, h.idx)) = 1

\* both near-matches have been dispatched by the orchestrator
C15_Witness ==
    \E i, j \in 1..Len(timeline) :
        /\ timeline[i].body = NearMatchBroken
        /\ timeline[j].body = NearMatchIdOnly
        /\ Dispatched(Orch, i) # {}
        /\ Dispatched(Orch, j) # {}

\* processing entry e raises in agent a: from_dict or the handler lookup in
\* _handle_agent_message, or the reads of _handle_agent_online
Raises(a, e) ==
    /\ e.sender # username(a)
    /\ e.cls.is_agent
    /\ ForSelf(a, e)
    /\ \/ ~e.cls.ok
       \/ ~Hashable(e.cls.msg.message_type)
       \/ /\ HandlerOf(a, e.cls.msg) = "_handle_agent_online"
          /\ ~OnlineContentOk(e.cls.msg.content)

\* process_user_message of agent a returns at once for the text body
IgnoredText(a, body) ==
    IF a = Orch THEN ~OrchCommand(body).addressed
    ELSE LET m == parse_mention(Strip(body), agent_id(Llm))
         IN  ~(m.some /\ m.command # <<>>) /\ ~StartsWith(Strip(body), S_bang_llm)

\* the receive loop of agent a runs and its callback has a branch to take
\* for the next event
Ready(a) ==
    /\ HasEvent(a)
    /\ \/ Event(a).sender = username(a)
       \/ ~Event(a).cls.is_agent /\ IgnoredText(a, Event(a).body)
       \/ Event(a).cls.is_agent /\ ~ForSelf(a, Event(a))
       \/ Raises(a, Event(a))
       \/ Accepts(a, "_handle_unknown_agent_message")
       \/ Accepts(a, "_handle_agent_online")

\* C16: after an event whose processing raised, the agent is still in its
\* receive loop: the loop has moved past the event, every later event it
\* has passed was dispatched, and the callback can run for the next one.
C16_ExceptionDoesNotStopLoop ==
    \A h \in handled :
        Raises(h.agent, timeline[h.idx]) =>
            /\ pc[h.agent] = "syncing"
            /\ cursor[h.agent] > h.idx
            /\ \A j \in (h.idx + 1)..(cursor[h.agent] - 1) :
                 timeline[j].ok => Dispatched(h.agent, j) # {}
            /\ Deliverable(h.agent) # {} => Ready(h.agent)

\* the orchestrator's handler raised on an announcement, from_dict raised on
\* a near-match, and a text typed later reached process_user_message
C16_Witness ==
    \E h, g, k \in handled :
        /\ h.agent = Orch /\ g.agent = Orch /\ k.agent = Orch
        /\ timeline[h.idx].body = OnlineNoName
        /\ timeline[g.idx].body = NearMatchIdOnly
        /\ k.idx > h.idx /\ k.idx > g.idx
        /\ k.handler = "process_user_message"

\* the event agent a is about to process is one it sent itself
OwnEventAtHand(a) == HasEvent(a) /\ Event(a).sender = username(a)

\* C17: the callback of an agent returns for an event the agent sent itself
\* without invoking a handler and without sending anything; the registry,
\* the workflows, the pending requests and the handler table stay as they
\* are.
C17_OwnEventDropped ==
    [][\A a \in Agents :
         (OwnEventAtHand(a) /\ cursor'[a] # cursor[a]) =>
             /\ handled' = handled \cup
                  {[agent |-> a, idx |-> EventIdx(a), handler |-> NoHandler,
                    at |-> now]}
             /\ timeline' = timeline
             /\ UNCHANGED <<orchVars, message_handlers, uuid_count>>]_vars

\* each agent has dropped an envelope it sent itself
C17_Witness ==
    \A a \in Agents :
        \E h \in handled :
            /\ h.agent = a
            /\ timeline[h.idx].sender = username(a)
            /\ ValidEnvelope(h.idx)
            /\ h.handler = NoHandler

(***************************************************************************)
(* The capability index: capability_map as _send_capabilities reads it.    *)
(***************************************************************************)
\* the lookup with the liveness filter that its caller _send_capabilities
\* applies afterwards
find_by_capability_online(c) ==
    IF c \in DOMAIN capability_map
    THEN {aid \in capability_map[c] :
            aid \in DOMAIN agents /\ is_online(agents[aid], DefaultTimeoutMinutes)}
    ELSE {}

\* the agent_ids capability_map holds for capability c
find_by_capability(c) ==
    IF c \in DOMAIN capability_map THEN capability_map[c] ELSE {}

\* the capabilities the registry entry of id advertises
Advertised(id) ==
    {CapabilityItems(agents[id].capabilities)[i] :
       i \in 1..Len(CapabilityItems(agents[id].capabilities))}

S_busy == <<"b", "u", "s", "y">>

RagPresenceBusy ==
    JDict(<<Pair(S_agent_id, JStr(S_rag)),
            Pair(S_display_name, JStr(S_rag)),
            Pair(S_capabilities, JList(<<JStr(S_x)>>)),
            Pair(S_status, JStr(S_busy))>>)

\* a capability that is a list cannot be a key of capability_map
RagPresenceOdd ==
    JDict(<<Pair(S_agent_id, JStr(S_rag)),
            Pair(S_display_name, JStr(S_rag)),
            Pair(S_capabilities, JList(<<JList(<<>>)>>)),
            Pair(S_status, JStr(S_online))>>)

RagBusy ==
    formatted_content(S_room, Foreign(8, JStr(S_star), S_agent_online, RagPresenceBusy))

RagOdd ==
    formatted_content(S_room, Foreign(9, JStr(S_star), S_agent_online, RagPresenceOdd))

RagOffline ==
    formatted_content(S_room,
        Foreign(10, JStr(S_star), S_agent_offline,
                JDict(<<Pair(S_agent_id, JStr(S_rag))>>)))

\* the foreign agent announces itself again with another capability list
RagPresenceRetooled ==
    JDict(<<Pair(S_agent_id, JStr(S_rag)),
            Pair(S_display_name, JStr(S_rag)),
            Pair(S_capabilities, JList(<<JStr(S_hi)>>)),
            Pair(S_status, JStr(S_online))>>)

RagRetooled ==
    formatted_content(S_room,
        Foreign(12, JStr(S_star), S_agent_online, RagPresenceRetooled))

RagEntries == Typed({RagOnline, RagBusy, RagOdd, RagOffline, RagRetooled})

InitPresence ==
    /\ Constructed
    /\ RoomConfigured
    /\ budget = Budget(0, 0, 0)
    /\ CodecOff

NextPresence ==
    \/ Login(Orch)
    \/ JoinCoordinationRoom(Orch)
    \/ AnnouncePresence(Orch)
    \/ Tick
    \/ \E entry \in RagEntries : UserSend(entry)
    \/ HandleAgentOnline
    \/ HandleAgentOffline

SpecPresence == InitPresence /\ [][NextPresence]_vars

\* self.agents after the assignment of _handle_agent_online for the
\* announcement msg processed at time t
Registered(reg, msg, t) ==
    LET id == DictGet(msg.content, S_agent_id)
    IN  [x \in DOMAIN reg \cup {id} |->
           IF x = id
           THEN [agent_id |-> id,
                 display_name |-> DictGet(msg.content, S_display_name),
                 capabilities |-> DictGet(msg.content, S_capabilities),
                 status |-> DictGet(msg.content, S_status),
                 last_seen |-> t,
                 user_id |-> msg.sender]
           ELSE reg[x]]

\* the orchestrator takes the step that processes an announcement its
\* handler can read
RegistersOnline ==
    /\ Accepts(Orch, "_handle_agent_online")
    /\ OnlineContentOk(Event(Orch).cls.msg.content)
    /\ cursor'[Orch] # cursor[Orch]

\* C19: processing an announcement leaves the entry of the announced agent
\* with status "online" and last_seen = now, whatever entry there was and
\* whatever status the payload carries, and processing it once more leaves
\* the registry as it is.
C19_RegisterOnlineSetsOnline ==
    [][RegistersOnline =>
         LET msg == Event(Orch).cls.msg
             id  == DictGet(msg.content, S_agent_id)
         IN  /\ agents' = Registered(agents, msg, now)
             /\ agents'[id].status = JStr(S_online)
             /\ agents'[id].last_seen = now
             /\ Registered(agents', msg, now) = agents']_vars

\* what _handle_agent_online keeps: the entry takes the status of the
\* payload
C19_RegisterOnlineCopiesStatus ==
    [][RegistersOnline =>
         LET msg == Event(Orch).cls.msg
             id  == DictGet(msg.content, S_agent_id)
         IN  /\ agents' = Registered(agents, msg, now)
             /\ agents'[id].status = DictGet(msg.content, S_status)
             /\ agents'[id].last_seen = now
             /\ Registered(agents', msg, now) = agents']_vars

\* an announcement with status "busy" has overwritten an entry that was
\* registered earlier
C19_Witness ==
    /\ JStr(S_rag) \in DOMAIN agents
    /\ agents[JStr(S_rag)].status = JStr(S_busy)
    /\ agents[JStr(S_rag)].last_seen > 0
    /\ system_stats.agents_discovered >= 2

\* the orchestrator takes the step that processes an agent_offline envelope
RegistersOffline ==
    /\ Accepts(Orch, "_handle_agent_offline")
    /\ cursor'[Orch] # cursor[Orch]

\* every capability of the announcement at hand can be a key of
\* capability_map: the loop of _handle_agent_online runs to its end
CapabilitiesIndexed ==
    LET caps == DictGet(Event(Orch).cls.msg.content, S_capabilities)
    IN  /\ Iterable(caps)
        /\ \A i \in 1..Len(CapabilityItems(caps)) : Hashable(CapabilityItems(caps)[i])

\* the value of the discovery counter after the step, given the one before
Counted(n) == system_stats'.agents_discovered = system_stats.agents_discovered + n

\* C20 as stated: every processed agent_online and every processed
\* agent_offline adds one to agents_discovered, and the counter never
\* decreases.
C20_CounterCountsEveryCall ==
    [][/\ (RegistersOnline \/ RegistersOffline) => Counted(1)
       /\ system_stats'.agents_discovered >= system_stats.agents_discovered]_vars

\* C20, amended: an agent_online whose processing runs to its end adds one
\* to agents_discovered; an agent_offline, and every other step, leaves the
\* counter as it is; the counter never decreases.
C20_CounterCountsAnnouncements ==
    [][/\ IF RegistersOnline /\ CapabilitiesIndexed THEN Counted(1) ELSE Counted(0)
       /\ system_stats'.agents_discovered >= system_stats.agents_discovered]_vars

\* two announcements were counted, and a departure and an announcement
\* whose capabilities cannot be indexed were processed
C20_Witness ==
    /\ system_stats.agents_discovered = 2
    /\ \E h, g \in handled :
         /\ h.handler = "_handle_agent_offline"
         /\ timeline[g.idx].body = RagOdd

(***************************************************************************)
(* Two chain workflows at a time.  The run starts where the orchestrator   *)
(* has started alone and has registered the foreign agent "rag" from its   *)
(* announcement; the chains name that agent, whose process is not part of  *)
(* the system and never answers.                                           *)
(***************************************************************************)
ChainRagHi == <<"@", "o", "r", "c", "h", ":", " ", "c", "h", "a", "i", "n", " ", "r", "a", "g", "-", ">", "r", "a", "g", " ", "h", "i">>

ChainRagYo == <<"@", "o", "r", "c", "h", ":", " ", "c", "h", "a", "i", "n", " ", "r", "a", "g", "-", ">", "r", "a", "g", " ", "y", "o">>

TwoChainEntries == Typed({ChainRagHi, ChainRagYo})

\* the room after the announcement of the orchestrator and that of "rag"
StartedTimeline ==
    <<Entry(username(Orch),
            BroadcastBody(Orch, 1, S_agent_online, PresenceContent(Orch), JDict(<<>>)),
            TRUE),
      Entry(UserId, RagOnline, TRUE)>>

\* the orchestrator receives, and the registry holds "rag"
Started ==
    /\ now = 0
    /\ uuid_count = 1
    /\ typed = {RagOnline}
    /\ pc = [a \in Agents |-> IF a = Orch THEN "syncing" ELSE "created"]
    /\ status = [a \in Agents |-> IF a = Orch THEN S_online ELSE S_offline]
    /\ coordination_room = [a \in Agents |-> IF a = Orch THEN RoomId ELSE NoRoom]
    /\ joined_rooms = [a \in Agents |-> IF a = Orch THEN {RoomId} ELSE {}]
    /\ message_handlers =
         [a \in Agents |-> IF a = Orch THEN OrchHandlers ELSE LlmHandlers]
    /\ timeline = StartedTimeline
    /\ cursor = [a \in Agents |-> IF a = Orch THEN 3 ELSE 1]
    /\ handled = {[agent |-> Orch, idx |-> 2, handler |-> "_handle_agent_online",
                   at |-> 0]}
    /\ agents = Registered(EmptyMap, StartedTimeline[2].cls.msg, 0)
    /\ capability_map = AddCapabilities(EmptyMap, <<JStr(S_x)>>, JStr(S_rag))
    /\ system_stats = [messages_routed |-> 0, workflows_completed |-> 0,
                       agents_discovered |-> 1, uptime_start |-> 0]
    /\ pending_requests = EmptyMap
    /\ active_workflows = EmptyMap
    /\ tasks = EmptyMap
    /\ routed = {}

InitTwoChains ==
    /\ Started
    /\ RoomConfigured
    /\ budget = Budget(0, 0, MaxSendFailures)
    /\ CodecOff

NextTwoChains ==
    \/ \E entry \in TwoChainEntries : UserSend(entry)
    \/ DropOwn(Orch)
    \/ HandleChainCommand
    \/ \E w \in DOMAIN tasks : ExecuteWorkflow(w)
    \/ \E w \in DOMAIN tasks : RouteReturn(w)
    \/ \E w \in DOMAIN tasks : SleepDone(w)
    \/ \E w \in DOMAIN tasks : NotifyReturn(w)

SpecTwoChains == InitTwoChains /\ [][NextTwoChains]_vars

\* Started is a state the registry runs reach
StartedInPresenceRuns == Started /\ budget = Budget(0, 0, 0)

\* the position in the room of the envelope with id msg_id, 0 when none
SentAt(msg_id) ==
    LET at == {i \in 1..Len(timeline) :
                 /\ timeline[i].cls.is_agent
                 /\ timeline[i].cls.ok
                 /\ timeline[i].cls.msg.id = JStr(msg_id)}
    IN  IF at = {} THEN 0 ELSE CHOOSE i \in at : TRUE

\* C21: a step of the task of one workflow, a route failure included,
\* leaves the record and the task of every other workflow as they are, and
\* leaves the orchestrator in its receive loop at the same position.
C21_WorkflowsIndependent ==
    [][\A w \in DOMAIN tasks :
         tasks'[w] # tasks[w] =>
             /\ \A v \in DOMAIN active_workflows \ {w} :
                  /\ active_workflows'[v] = active_workflows[v]
                  /\ tasks'[v] = tasks[v]
             /\ pc'[Orch] = "syncing"
             /\ cursor' = cursor]_vars

\* the route of the second step of one workflow failed after the first step
\* of another workflow was routed, and that other workflow is still running
C21_Witness ==
    \E rw, rv \in routed :
        /\ rw.wf # rv.wf
        /\ rw.step = 1 /\ rv.step = 0
        /\ active_workflows[rw.wf].status = S_failed
        /\ active_workflows[rw.wf].steps[2].status = S_failed
        /\ active_workflows[rv.wf].status = S_running
        /\ SentAt(rv.msg_id) # 0
        /\ SentAt(rv.msg_id) < SentAt(rw.msg_id)
        /\ ~timeline[SentAt(rw.msg_id)].ok

(***************************************************************************)
(* The workflow_step handler of the LLM agent in two parts: it awaits      *)
(* _generate_response, an HTTP request to the language model, and replies  *)
(* when the request returns.  _on_message awaits _handle_agent_message,    *)
(* which awaits the handler, and no task is created for any of them: the   *)
(* callback that the sync loop awaits returns after the reply is sent.     *)
(* The LLM agent runs alone; the steps and the chat are typed by a         *)
(* program on the user's account.                                          *)
(***************************************************************************)
StepForLlm ==
    formatted_content(agent_id(Llm),
                      Foreign(11, JStr(agent_id(Llm)), S_workflow_step, JStr(S_hi)))

GenerateEntries == Typed({StepForLlm, S_hello, PingRoom})

InitGenerate ==
    /\ Constructed
    /\ RoomConfigured
    /\ budget = Budget(0, 0, 0)
    /\ CodecOff

\* _handle_workflow_step up to "await self._generate_response(...)"
GenerateRequest ==
    /\ Accepts(Llm, "_handle_workflow_step")
    /\ pc' = [pc EXCEPT ![Llm] = "generating"]
    /\ UNCHANGED <<now, typed, environ, status, coordination_room,
                   joined_rooms, message_handlers, orchVars, netVars,
                   codecVars>>

\* _generate_response returns; the handler replies and the callback returns
GenerateReply ==
    /\ pc[Llm] = "generating"
    /\ pc' = [pc EXCEPT ![Llm] = "syncing"]
    /\ \E response \in LlmResponses :
         \E ok \in SendOutcomes(Llm) :
           /\ timeline' =
                Sent(timeline, Llm,
                     ReplyBody(Llm, uuid_count + 1, Event(Llm).cls.msg,
                               JDict(<<Pair(S_output, response),
                                       Pair(S_status, JStr(S_completed))>>)),
                     ok)
           /\ budget' = Spend(ok)
    /\ uuid_count' = uuid_count + 1
    /\ Advance(Llm)
    /\ Invoked(Llm, "_handle_workflow_step")
    /\ UNCHANGED <<now, typed, environ, status, coordination_room,
                   joined_rooms, message_handlers, orchVars, codecVars>>

NextGenerate ==
    \/ Login(Llm)
    \/ JoinCoordinationRoom(Llm)
    \/ AnnouncePresence(Llm)
    \/ \E entry \in GenerateEntries : UserSend(entry)
    \/ DropOwn(Llm)
    \/ HandleUnknown(Llm)
    \/ LlmIgnoreUserMessage
    \/ GenerateRequest
    \/ GenerateReply

SpecGenerate == InitGenerate /\ [][NextGenerate]_vars

\* agent a is inside a handler that waits for the language model
AwaitingModel(a) == pc[a] = "generating"

\* an event after the one being handled has reached agent a
LaterEventArrived(a) ==
    \E j \in (EventIdx(a) + 1)..Len(timeline) : timeline[j].ok

\* C22: while a handler of the agent waits for the language model and a
\* later event has arrived, the agent's callback can run for that event.
C22_DispatchWhileAwaiting ==
    \A a \in Agents :
        (AwaitingModel(a) /\ Deliverable(a) # {} /\ LaterEventArrived(a)) =>
            HasEvent(a)

\* a text that reached the room before the reply to the step was sent has
\* been dispatched, after the handler of the step returned
C22_Witness ==
    \E h, g \in handled :
        /\ h.agent = Llm /\ g.agent = Llm
        /\ h.handler = "_handle_workflow_step"
        /\ timeline[g.idx].body = S_hello
        /\ \E r \in RepliesTo(Llm, h.idx) : h.idx < g.idx /\ g.idx < r

\* the positions in the room of what agent a sent and the room received
OwnSent(a) == {i \in 1..Len(timeline) : timeline[i].sender = username(a) /\ timeline[i].ok}

\* entry i is a broadcast envelope of the given type from agent a
BroadcastOf(a, i, message_type) ==
    /\ timeline[i].cls.is_agent
    /\ timeline[i].cls.ok
    /\ timeline[i].cls.target = S_room
    /\ timeline[i].cls.msg.sender = JStr(agent_id(a))
    /\ timeline[i].cls.msg.target = JStr(S_star)
    /\ timeline[i].cls.msg.message_type = JStr(message_type)

\* entry i is the agent_online of agent a with its capability list and
\* status "online"
OnlineAnnouncement(a, i) ==
    /\ BroadcastOf(a, i, S_agent_online)
    /\ timeline[i].cls.msg.content =
         JDict(<<Pair(S_agent_id, JStr(agent_id(a))),
                 Pair(S_display_name, JStr(display_name(a))),
                 Pair(S_capabilities, JList(capabilities(a))),
                 Pair(S_status, JStr(S_online))>>)

\* C23: before an agent has announced itself it has sent nothing and
\* received nothing; it announces after it has logged in and joined the
\* coordination room, and the first thing it sends is agent_online with its
\* own capabilities and status "online"; once it has stopped, the last
\* thing it sent is agent_offline.
C23_LifecycleOrder ==
    \A a \in Agents :
        /\ pc[a] \in {"created", "logged_in", "joined", "failed"} =>
             /\ OwnSent(a) = {}
             /\ cursor[a] = 1
             /\ \A h \in handled : h.agent # a
        /\ pc[a] = "created" => joined_rooms[a] = {} /\ status[a] = S_offline
        /\ pc[a] \in {"syncing", "stopped"} =>
             /\ RoomId \in joined_rooms[a]
             /\ OwnSent(a) # {}
             /\ \E i \in OwnSent(a) :
                  /\ \A j \in OwnSent(a) : i <= j
                  /\ OnlineAnnouncement(a, i)
                  /\ cursor[a] > i
        /\ pc[a] = "stopped" =>
             \E i \in OwnSent(a) :
                 /\ \A j \in OwnSent(a) : j <= i
                 /\ BroadcastOf(a, i, S_agent_offline)

\* the LLM agent has stopped after it replied to an envelope, and the
\* orchestrator is still receiving
C23_Witness ==
    /\ pc[Llm] = "stopped"
    /\ pc[Orch] = "syncing"
    /\ Cardinality(OwnSent(Llm)) >= 3

(***************************************************************************)
(* Starting up over a transport that can refuse the login and the join.    *)
(***************************************************************************)
InitLifecycle ==
    /\ Constructed
    /\ RoomConfigured
    /\ budget = Budget(MaxStartFailures, MaxStartFailures, 0)
    /\ CodecOff

NextLifecycle ==
    \/ \E a \in Agents : Login(a)
    \/ \E a \in Agents : JoinCoordinationRoom(a)
    \/ \E a \in Agents : AnnouncePresence(a)
    \/ \E a \in Agents : Stop(a)
    \/ \E a \in Agents : DropOwn(a)
    \/ \E a \in Agents : HandleUnknown(a)
    \/ HandleAgentOnline
    \/ HandleAgentOffline

SpecLifecycle == InitLifecycle /\ [][NextLifecycle]_vars

\* start went past a join_room that returned False
JoinFailed(a) ==
    /\ coordination_room[a] # NoRoom
    /\ coordination_room[a] \notin joined_rooms[a]

\* C24: an agent whose login or whose join of the coordination room failed
\* has not announced agent_online and is not receiving.
C24_StartFailureIsFatal ==
    \A a \in Agents :
        (pc[a] = "failed" \/ JoinFailed(a)) =>
            /\ pc[a] \notin {"syncing", "stopped"}
            /\ \A i \in 1..Len(timeline) : ~BroadcastOf(a, i, S_agent_online)
            /\ \A h \in handled : h.agent # a

\* the orchestrator's join was refused, and it has since handled the
\* announcement of the LLM agent
C24_Witness ==
    /\ JoinFailed(Orch)
    /\ \E h \in handled : h.agent = Orch /\ h.handler = "_handle_agent_online"
    /\ pc[Llm] \in {"syncing", "stopped"}

\* timeline entry j is an envelope of agent a built by reply_to_agent from
\* the envelope in entry i
BuiltByReplyTo(a, j, i) ==
    LET r == timeline[j].cls
        original == timeline[i].cls.msg
    IN  /\ timeline[j].sender = username(a)
        /\ r.is_agent
        /\ r.ok
        /\ r.target = PyStr(original.sender)
        /\ r.msg.sender = JStr(agent_id(a))
        /\ r.msg.target = original.sender
        /\ r.msg.context = JDict(<<Pair(S_reply_to, original.id)>>)
        /\ r.msg.message_type =
             JStr(PyStr(original.message_type) \o S_response_suffix)
        /\ r.msg.id # original.id

\* C25: the envelope an agent builds in reply to a received envelope has
\* target = original.sender, context.reply_to = original.id, message_type =
\* original.message_type + "_response", and an id that differs from
\* original.id.
C25_ReplyDerivedFromOriginal ==
    \A h \in handled :
        h.handler = "_handle_unknown_agent_message" =>
            /\ \E j \in h.idx + 1..Len(timeline) : BuiltByReplyTo(h.agent, j, h.idx)
            /\ \A j \in RepliesTo(h.agent, h.idx) : BuiltByReplyTo(h.agent, j, h.idx)

\* both agents have replied: the LLM agent to an envelope of the foreign
\* agent, the orchestrator to an envelope of the LLM agent
C25_Witness ==
    \E h, g \in handled :
        /\ h.agent = Llm /\ g.agent = Orch
        /\ h.handler = "_handle_unknown_agent_message"
        /\ g.handler = "_handle_unknown_agent_message"
        /\ timeline[h.idx].sender = UserId
        /\ timeline[g.idx].sender = username(Llm)
        /\ RepliesTo(Llm, h.idx) # {}
        /\ RepliesTo(Orch, g.idx) # {}

\* timeline entry i is an error reply: an envelope with context.reply_to
\* whose content has an "error" text
IsErrorReply(i) ==
    /\ ReplyToOf(timeline[i]) # JNull
    /\ timeline[i].cls.msg.content.k = "dict"
    /\ DictHas(timeline[i].cls.msg.content, S_error)

\* C26: an error reply never makes its receiver send an error reply back:
\* no agent has run its unknown-type handler, which replies, for an envelope
\* that is itself an error reply.
C26_ErrorReplyNotAnswered ==
    \A h \in handled :
        h.handler = "_handle_unknown_agent_message" => ~IsErrorReply(h.idx)

\* the agent_online of the orchestrator was answered by the LLM agent with
\* an error reply, and the orchestrator answered that with an error reply of
\* its own
C26_Witness ==
    \E h \in handled :
        /\ h.agent = Orch
        /\ h.handler = "_handle_unknown_agent_message"
        /\ timeline[h.idx].sender = username(Llm)
        /\ IsErrorReply(h.idx)
        /\ \E r \in RepliesTo(Orch, h.idx) : IsErrorReply(r)
        /\ \E i \in 1..h.idx :
             OnlineAnnouncement(Orch, i) /\ h.idx \in RepliesTo(Llm, i)

\* the capabilities some registry entry advertises or capability_map has a
\* key for
KnownCapabilities ==
    DOMAIN capability_map \cup UNION {Advertised(id) : id \in DOMAIN agents}

\* the agent_ids capability_map holds anywhere
MappedAgents == UNION {capability_map[c] : c \in DOMAIN capability_map}

\* C27: an agent is in the capability map's set for c exactly when it is
\* registered and the capability list of its current registry entry
\* contains c.
C27_MapMatchesRegistry ==
    \A c \in KnownCapabilities :
        \A id \in DOMAIN agents \cup MappedAgents :
            id \in find_by_capability(c) <=>
                (id \in DOMAIN agents /\ c \in Advertised(id))

\* the foreign agent announced capability "x" and then, again, a list
\* without it; both announcements have been processed
C27_Witness ==
    /\ JStr(S_rag) \in DOMAIN agents
    /\ agents[JStr(S_rag)].capabilities = JList(<<JStr(S_hi)>>)
    /\ \E h, g \in handled :
         /\ h.handler = "_handle_agent_online" /\ g.handler = "_handle_agent_online"
         /\ h.idx < g.idx
         /\ timeline[h.idx].body = RagOnline
         /\ timeline[g.idx].body = RagRetooled
    /\ JStr(S_rag) \in find_by_capability(JStr(S_x))

\* the 0-based indices of the steps of workflow wf that have the status
StepsWith(wf, step_status) ==
    {k \in 0..Len(wf.steps) - 1 : wf.steps[k + 1].status = step_status}

\* C28: in every workflow every step below current_step is completed, every
\* step above current_step is pending, and at most one step is running.
C28_StepsOrderedAroundCurrent ==
    \A w \in DOMAIN active_workflows :
        LET wf == active_workflows[w]
        IN  /\ \A k \in 0..Len(wf.steps) - 1 :
                 /\ k < wf.current_step => wf.steps[k + 1].status = S_completed
                 /\ k > wf.current_step => wf.steps[k + 1].status = S_pending
            /\ Cardinality(StepsWith(wf, S_running)) <= 1

\* a workflow of three steps is at its second step: the first is completed,
\* the second running, the third pending
C28_Witness ==
    \E w \in DOMAIN active_workflows :
        LET wf == active_workflows[w]
        IN  /\ Len(wf.steps) = 3
            /\ wf.current_step = 1
            /\ tasks[w].pc = "sleeping"
            /\ wf.steps[1].status = S_completed
            /\ wf.steps[2].status = S_running
            /\ wf.steps[3].status = S_pending

\* the agent the request r was routed to
RoutedTo(r) == active_workflows'[r.wf].steps[r.step + 1].agent_id

\* C29: whenever _route_message_to_agent sends a workflow_step envelope, the
\* agent it is sent to passes is_online at that moment.
C29_RoutedOnlyToOnline ==
    [][\A r \in routed' \ routed : r.sent => Available(RoutedTo(r))]_vars

\* the orchestrator processed the agent_offline of the LLM agent while the
\* first step of an accepted chain was under way, and routed the second step
\* to the LLM agent afterwards
C29_Witness ==
    \E r \in routed, h \in handled :
        /\ r.step = 1
        /\ r.sent
        /\ h.agent = Orch
        /\ h.handler = "_handle_agent_offline"
        /\ agents[JStr(agent_id(Llm))].status = JStr(S_offline)
        /\ \E q \in routed :
             /\ q.wf = r.wf /\ q.step = 0
             /\ \E i \in RequestsOf(q) : i < h.idx
        /\ \E j \in RequestsOf(r) : j > h.idx /\ timeline[j].ok

\* the routing attempt behind the request r has returned to _execute_workflow
RouteReturned(r) == r.step < tasks[r.wf].i \/ tasks[r.wf].pc # "routing"

\* C30: pending_requests has an entry for a request id exactly while the
\* request was sent successfully and no reply to it has been received: a
\* failed send leaves no entry, and the reply removes the entry.
C30_PendingOnlyWhileAwaited ==
    \A r \in routed :
        RouteReturned(r) =>
            (r.request_id \in DOMAIN pending_requests <=>
                (~RouteFailed(r) /\ RepliesReceived(r) = {}))

\* the request of the first step was answered and the orchestrator received
\* the reply, the send of the request of the second step was refused, and
\* pending_requests has both entries
C30_Witness ==
    \E r, q \in routed :
        /\ r.wf = q.wf /\ r.step = 0 /\ q.step = 1
        /\ RepliesReceived(r) # {}
        /\ RouteFailed(q) /\ RouteReturned(q)
        /\ {r.request_id, q.request_id} \subseteq DOMAIN pending_requests

====
